---------------------------- MODULE Spec2Model ----------------------------
(***************************************************************************)
(* Verification model of the NOVA air-quality front end.                   *)
(*                                                                         *)
(*   - extractTimeFromQuery / generateHourlyForecast                       *)
(*     (components/QueryDashboard.js)                                      *)
(*   - generateQuerySpecificData, the dashboard view-model mapper          *)
(*   - App (App.js): the screen state machine and handleQuerySubmit        *)
(*   - DataService and ApiService (services/dataService.js) with the       *)
(*     data hooks of hooks/useApi.js                                       *)
(*                                                                         *)
(* JavaScript strings are sequences of one-character strings.  JavaScript  *)
(* values are tagged records (field t is the type tag).  Numbers are kept  *)
(* in tenths (557 is 55.7) so that Math.round is a real operation.         *)
(***************************************************************************)
EXTENDS Integers, Sequences, FiniteSets, TLC

VARIABLES
    pc,             \* position of the pure-function drivers: "start" / "done"
                    \* ("rerendered" after a later render; "app", "data",
                    \* "hook", and "mount" / "mounted" for AdvancedDashboard)
    tq,             \* argument of extractTimeFromQuery
    tres,           \* its outcome
    fbase,          \* baseAQI argument of generateHourlyForecast (tenths)
    ftarget,        \* targetTime argument of generateHourlyForecast
    rnd,            \* (Math.random() * 6) - 3 of each call, in call order
    fres,           \* the forecast returned
    userQuery,      \* App state, QueryDashboard prop
    apiData,        \* App state, QueryDashboard prop
    vm,             \* what generateQuerySpecificData returned at the last render
    currentScreen,  \* App state
    aiResponse,     \* App state
    isLoading,      \* App state
    pending,        \* extractParameters calls in flight
    seq,            \* number of submissions accepted so far
    shown,          \* the submission whose outcome aiResponse and apiData hold
    outcome,        \* per submission: "pending", "ok" or "failed"
    queryOf,        \* the submission whose text userQuery holds (0: none)
    env,            \* process.env as read when dataService.js is loaded
    hook,           \* state of the data hook of useApi.js a component uses
    dsCall,         \* the DataService operation the hook last called
    requests,       \* the ApiService calls that operation made, in order
    attempts,       \* calls of apiFunction made by the current fetchData
    fetches         \* the promises of a hook's fetchData calls, in call order

vars == << pc, tq, tres, fbase, ftarget, rnd, fres, userQuery, apiData, vm,
           currentScreen, aiResponse, isLoading, pending, seq, shown,
           outcome, queryOf, env, hook, dsCall, requests, attempts,
           fetches >>

parserVars == << tq, tres >>
forecastVars == << fbase, ftarget, fres >>
appVars == << currentScreen, aiResponse, isLoading, pending, seq, shown,
              outcome, queryOf >>
dataVars == << env, hook, dsCall, requests, attempts, fetches >>

-----------------------------------------------------------------------------
(* JavaScript values *)

Undefined == [t |-> "undefined"]
Null == [t |-> "null"]
NaN == [t |-> "NaN"]
Num(n) == [t |-> "number", n |-> n]
Str(s) == [t |-> "string", s |-> s]

\* ToBoolean: the falsy values are undefined, null, NaN, 0 and ''.
Truthy(v) ==
    /\ v.t \notin {"undefined", "null", "NaN"}
    /\ (v.t = "number" => v.n # 0)
    /\ (v.t = "string" => v.s # << >>)

\* a || b
Or(a, b) == IF Truthy(a) THEN a ELSE b

\* o.f for an object o (a missing property reads as undefined)
Get(o, f) == IF o.t = "object" /\ f \in DOMAIN o THEN o[f] ELSE Undefined

-----------------------------------------------------------------------------
(* Strings *)

Digits == <<"0", "1", "2", "3", "4", "5", "6", "7", "8", "9">>

IsDigit(c) == \E i \in 1..10 : Digits[i] = c

DigitVal(c) == (CHOOSE i \in 1..10 : Digits[i] = c) - 1

IsSpace(c) == c = " "

UpperCase ==
    << "A", "B", "C", "D", "E", "F", "G", "H", "I", "J", "K", "L", "M",
       "N", "O", "P", "Q", "R", "S", "T", "U", "V", "W", "X", "Y", "Z" >>

LowerCase ==
    << "a", "b", "c", "d", "e", "f", "g", "h", "i", "j", "k", "l", "m",
       "n", "o", "p", "q", "r", "s", "t", "u", "v", "w", "x", "y", "z" >>

\* String.prototype.toLowerCase on one character
LowerChar(c) ==
    IF \E i \in 1..26 : UpperCase[i] = c
    THEN LowerCase[CHOOSE i \in 1..26 : UpperCase[i] = c]
    ELSE c

toLowerCase(s) == [i \in 1..Len(s) |-> LowerChar(s[i])]

\* Number.prototype.toString for an integer
RECURSIVE NatToString(_)
NatToString(n) ==
    IF n < 10 THEN << Digits[n + 1] >>
    ELSE NatToString(n \div 10) \o << Digits[(n % 10) + 1] >>

IntToString(n) == IF n < 0 THEN <<"-">> \o NatToString(-n) ELSE NatToString(n)

\* v.toString() for a number value of the parser (an integer or NaN)
NumToString(v) == IF v.t = "NaN" THEN <<"N", "a", "N">> ELSE IntToString(v.n)

\* String.prototype.padStart(2, '0')
padStart2(s) == IF Len(s) < 2 THEN [i \in 1..(2 - Len(s)) |-> "0"] \o s ELSE s

\* the leading run of digits of s, from position i
RECURSIVE DigitRun(_, _)
DigitRun(s, i) ==
    IF i <= Len(s) /\ IsDigit(s[i]) THEN << s[i] >> \o DigitRun(s, i + 1)
    ELSE << >>

RECURSIVE DigitsToNat(_, _)
DigitsToNat(d, acc) ==
    IF d = << >> THEN acc ELSE DigitsToNat(Tail(d), acc * 10 + DigitVal(Head(d)))

\* parseInt(s) for the strings the code passes (no sign, no leading blanks)
parseInt(s) ==
    LET d == DigitRun(s, 1)
    IN  IF d = << >> THEN NaN ELSE Num(DigitsToNat(d, 0))

\* String.prototype.split(':')[0]
RECURSIVE BeforeColon(_, _)
BeforeColon(s, i) ==
    IF i > Len(s) \/ s[i] = ":" THEN << >>
    ELSE << s[i] >> \o BeforeColon(s, i + 1)

\* String.prototype.includes
includes(s, sub) ==
    \E i \in 0..(Len(s) - Len(sub)) :
        \A j \in 1..Len(sub) : s[i + j] = sub[j]

-----------------------------------------------------------------------------
(* extractTimeFromQuery: QueryDashboard.js lines 48-74 *)

\* the outcome of a call that raised an exception
Throw == [t |-> "throw"]

\* True iff s has n digits from position i.
DigitsAt(s, i, n) ==
    /\ i + n - 1 <= Len(s)
    /\ \A k \in i..(i + n - 1) : IsDigit(s[k])

\* \s* : the position after the blanks that start at i
RECURSIVE SkipSpaces(_, _)
SkipSpaces(s, i) ==
    IF i <= Len(s) /\ IsSpace(s[i]) THEN SkipSpaces(s, i + 1) ELSE i

\* (am|pm) under the i flag, at position j
MeridiemAt(s, j) ==
    /\ j + 1 <= Len(s)
    /\ LowerChar(s[j]) \in {"a", "p"}
    /\ LowerChar(s[j + 1]) = "m"

\* timePatterns[k] matches s from position i with an h-digit first group.
PatternAt(k, s, i, h) ==
    CASE k = 1 ->   \* /(\d{1,2}):(\d{2})\s*(am|pm)/i
            /\ DigitsAt(s, i, h)
            /\ i + h <= Len(s) /\ s[i + h] = ":"
            /\ DigitsAt(s, i + h + 1, 2)
            /\ MeridiemAt(s, SkipSpaces(s, i + h + 3))
      [] k = 2 ->   \* /(\d{1,2})\s*(am|pm)/i
            /\ DigitsAt(s, i, h)
            /\ MeridiemAt(s, SkipSpaces(s, i + h))
      [] k = 3 ->   \* /(\d{1,2}):(\d{2})/
            /\ DigitsAt(s, i, h)
            /\ i + h <= Len(s) /\ s[i + h] = ":"
            /\ DigitsAt(s, i + h + 1, 2)

\* The capture groups match[1], match[2], match[3] of that match.
GroupsAt(k, s, i, h) ==
    LET g1 == Str(SubSeq(s, i, i + h - 1))
    IN  CASE k = 1 ->
                LET j == SkipSpaces(s, i + h + 3)
                IN  << g1, Str(SubSeq(s, i + h + 1, i + h + 2)),
                       Str(SubSeq(s, j, j + 1)) >>
          [] k = 2 ->
                LET j == SkipSpaces(s, i + h)
                IN  << g1, Str(SubSeq(s, j, j + 1)), Undefined >>
          [] k = 3 ->
                << g1, Str(SubSeq(s, i + h + 1, i + h + 2)), Undefined >>

Matches(k, s) == \E i \in 1..Len(s) : \E h \in {1, 2} : PatternAt(k, s, i, h)

\* String.prototype.match: the leftmost match, \d{1,2} greedy.
match(k, s) ==
    LET i == CHOOSE a \in 1..Len(s) :
                 /\ \E h \in {1, 2} : PatternAt(k, s, a, h)
                 /\ \A b \in 1..(a - 1) : \A h \in {1, 2} : ~PatternAt(k, s, b, h)
        h == IF PatternAt(k, s, i, 2) THEN 2 ELSE 1
    IN  GroupsAt(k, s, i, h)

\* lines 60-70: the string built from a match
timeOfMatch(m) ==
    LET hour0 == parseInt(m[1].s)
        minute == IF Truthy(m[2]) THEN parseInt(m[2].s) ELSE Num(0)
        meridiem == Or(m[3], m[2])
        mer == IF Truthy(meridiem) THEN toLowerCase(meridiem.s) ELSE << >>
        hour == IF Truthy(meridiem) /\ mer = <<"p", "m">> /\ hour0.n # 12
                    THEN Num(hour0.n + 12)
                ELSE IF Truthy(meridiem) /\ mer = <<"a", "m">> /\ hour0.n = 12
                    THEN Num(0)
                ELSE hour0
    IN  Str(padStart2(NumToString(hour)) \o <<":">> \o padStart2(NumToString(minute)))

\* line 57: the first pattern of the chain that matches, 0 when none does
firstPattern(s) ==
    IF Matches(1, s) THEN 1 ELSE IF Matches(2, s) THEN 2
    ELSE IF Matches(3, s) THEN 3 ELSE 0

\* Null is the JavaScript null the code returns for "no match"; a truthy
\* value that is not a string has no match method: query.match(...) raises
\* a TypeError.
extractTimeFromQuery(query) ==
    IF ~Truthy(query) THEN Null
    ELSE IF query.t # "string" THEN Throw
    ELSE LET k == firstPattern(query.s)
         IN  IF k = 0 THEN Null ELSE timeOfMatch(match(k, query.s))

-----------------------------------------------------------------------------
(* generateHourlyForecast: QueryDashboard.js lines 77-97 *)

\* Math.round on tenths: the nearest integer, halves rounded up
Round(v) == ((v + 5) \div 10) * 10

\* the JavaScript remainder a % b (the sign of a), for b > 0
JsRem(a, b) == IF a >= 0 THEN a % b ELSE -((-a) % b)

\* line 78
baseHourOf(targetTime) ==
    IF Truthy(targetTime) THEN parseInt(BeforeColon(targetTime.s, 1))
    ELSE Num(14)

\* line 83 without the + 24 that keeps the remainder from going negative
hourAtNoWrap(baseHour, i) ==
    IF baseHour.t = "NaN" THEN NaN ELSE Num(JsRem(baseHour.n + i, 24))

\* line 83
hourAt(baseHour, i) ==
    IF baseHour.t = "NaN" THEN NaN ELSE Num(JsRem(baseHour.n + i + 24, 24))

\* line 84
timeStrOf(hour) == padStart2(NumToString(hour)) \o <<":", "0", "0">>

\* the position of offset i among the Math.random() calls (none for i = 0)
drawIndex(i) == IF i < 0 THEN i + 4 ELSE i + 3

\* lines 87-91 without the Math.round of line 90
aqiAtUnrounded(baseAQI, i, r) ==
    IF i # 0 THEN baseAQI + r[drawIndex(i)] ELSE baseAQI

\* lines 87-91 without the test of line 88: the target hour is perturbed too
aqiAtNoAnchor(baseAQI, i, r) ==
    Round(baseAQI + r[IF i = 0 THEN 1 ELSE drawIndex(i)])

\* lines 87-91; r[k] is (Math.random() * 6) - 3 of the k-th call, in tenths
aqiAt(baseAQI, i, r) ==
    IF i # 0 THEN Round(baseAQI + r[drawIndex(i)]) ELSE baseAQI

\* lines 82-94: the loop bounds
forecastOffsets == << -3, -2, -1, 0, 1, 2, 3 >>

generateHourlyForecast(baseAQI, targetTime, r) ==
    LET baseHour == baseHourOf(targetTime)
    IN  [k \in 1..Len(forecastOffsets) |->
            [time |-> timeStrOf(hourAt(baseHour, forecastOffsets[k])),
             aqi |-> aqiAt(baseAQI, forecastOffsets[k], r)]]

-----------------------------------------------------------------------------
(* String literals of QueryDashboard.js *)

txtLine ==
    << "l", "i", "n", "e" >>

txtBar ==
    << "b", "a", "r" >>

txtMap ==
    << "m", "a", "p" >>

txtUndefined ==
    << "u", "n", "d", "e", "f", "i", "n", "e", "d" >>

txtNull ==
    << "n", "u", "l", "l" >>

txtPollutantComparison ==
    << "p", "o", "l", "l", "u", "t", "a", "n", "t", " ", "c", "o", "m", "p",
    "a", "r", "i", "s", "o", "n" >>

txtCurrentLocation ==
    << "C", "u", "r", "r", "e", "n", "t", " ", "L", "o", "c", "a", "t", "i",
    "o", "n" >>

txtUnknown ==
    << "U", "n", "k", "n", "o", "w", "n" >>

txtNoRecommendations ==
    << "N", "o", " ", "s", "p", "e", "c", "i", "f", "i", "c", " ", "r", "e",
    "c", "o", "m", "m", "e", "n", "d", "a", "t", "i", "o", "n", "s" >>

txtMaryland ==
    << "m", "a", "r", "y", "l", "a", "n", "d" >>

txtDublin ==
    << "d", "u", "b", "l", "i", "n" >>

txtCork ==
    << "c", "o", "r", "k" >>

txtAsthma ==
    << "a", "s", "t", "h", "m", "a" >>

txtMarylandPark ==
    << "M", "a", "r", "y", "l", "a", "n", "d", " ", "P", "a", "r", "k" >>

txtDublinName ==
    << "D", "u", "b", "l", "i", "n" >>

txtCorkName ==
    << "C", "o", "r", "k" >>

txtModerateRisk ==
    << "M", "o", "d", "e", "r", "a", "t", "e", " ", "R", "i", "s", "k" >>

txtLowRisk ==
    << "L", "o", "w", " ", "R", "i", "s", "k" >>

txtConsiderIndoor ==
    << "C", "o", "n", "s", "i", "d", "e", "r", " ", "i", "n", "d", "o", "o",
    "r", " ", "a", "c", "t", "i", "v", "i", "t", "i", "e", "s", " ", "o",
    "r", " ", "w", "a", "i", "t", " ", "f", "o", "r", " ", "b", "e", "t",
    "t", "e", "r", " ", "a", "i", "r", " ", "q", "u", "a", "l", "i", "t",
    "y" >>

txtSafeOutdoor ==
    << "S", "a", "f", "e", " ", "f", "o", "r", " ", "o", "u", "t", "d", "o",
    "o", "r", " ", "a", "c", "t", "i", "v", "i", "t", "i", "e", "s" >>

txtNoApiData ==
    << "N", "o", " ", "A", "P", "I", " ", "d", "a", "t", "a", " ", "a", "v",
    "a", "i", "l", "a", "b", "l", "e" >>

txtHigh ==
    << "H", "i", "g", "h" >>

txtModerate ==
    << "M", "o", "d", "e", "r", "a", "t", "e" >>

txtLow ==
    << "L", "o", "w" >>

-----------------------------------------------------------------------------
(* generateQuerySpecificData: QueryDashboard.js lines 99-251 *)

EmptyObject == [t |-> "object"]

\* `${v}` for the values a visualization's type and title take
templateString(v) ==
    CASE v.t = "string" -> v.s
      [] v.t = "undefined" -> txtUndefined
      [] v.t = "null" -> txtNull
      [] v.t = "number" -> IntToString(v.n)

\* Array.prototype.find: the first of the positions that satisfy the
\* callback, 0 when there is none
firstOf(positions) ==
    IF positions = {} THEN 0
    ELSE CHOOSE i \in positions : \A j \in positions : i <= j

\* line 100
queryStringOf(query) ==
    IF Truthy(query) /\ query.t = "string" THEN toLowerCase(query.s) ELSE << >>

\* line 103
hasAnalysis(data) ==
    /\ Truthy(data)
    /\ Truthy(Get(data, "metadata"))
    /\ Truthy(Get(Get(data, "metadata"), "analysis"))

\* the fallback number of line 112 and line 230, in tenths
DefaultAQI == 420

\* line 112
currentAQIOf(aqiData, dashboardDetails) ==
    Or(Or(Get(aqiData, "value"), Get(dashboardDetails, "aqi")), Num(DefaultAQI))

\* line 115 and line 249, in units of 0.0001 degree
defaultMapCenter == << Num(398283), Num(-985795) >>
dublinMapCenter == << Num(533498), Num(-62603) >>

\* line 118 and line 135
hasVisualizations(dashboardDetails) ==
    /\ Truthy(Get(dashboardDetails, "visualizations"))
    /\ Len(Get(dashboardDetails, "visualizations").items) > 0

\* line 121
isMapWithCoords(viz) ==
    /\ Get(viz, "type") = Str(txtMap)
    /\ Truthy(Get(viz, "data"))
    /\ Truthy(Get(Get(viz, "data"), "lat"))
    /\ Truthy(Get(Get(viz, "data"), "lon"))

\* lines 115-126
mapCenterOf(dashboardDetails) ==
    IF hasVisualizations(dashboardDetails)
    THEN LET items == Get(dashboardDetails, "visualizations").items
             k == firstOf({i \in 1..Len(items) : isMapWithCoords(items[i])})
         IN  IF k # 0 THEN << items[k].data.lat, items[k].data.lon >>
             ELSE defaultMapCenter
    ELSE defaultMapCenter

\* line 136
isLine(viz) == Get(viz, "type") = Str(txtLine)

\* line 146: new Date(timestamp).getHours(); a timestamp value carries the
\* local hour it denotes
getHours(timestamp) == Num(timestamp.hour)

\* lines 132-157
timeDataOf(dashboardDetails, currentAQI, extractedTime, r) ==
    IF hasVisualizations(dashboardDetails)
    THEN LET items == Get(dashboardDetails, "visualizations").items
             k == firstOf({i \in 1..Len(items) : isLine(items[i])})
             data == IF k # 0 THEN Get(items[k], "data") ELSE Undefined
         IN  IF /\ k # 0
                /\ Truthy(data)
                /\ Truthy(Get(data, "timestamp"))
                /\ Truthy(Get(data, "value"))
             THEN generateHourlyForecast(
                      data.value.n,
                      Str(padStart2(NumToString(getHours(data.timestamp)))
                              \o <<":", "0", "0">>),
                      r)
             ELSE generateHourlyForecast(currentAQI.n, extractedTime, r)
    ELSE generateHourlyForecast(currentAQI.n, extractedTime, r)

\* lines 161-178: the payload's key of each chart label
pollutantKey ==
    ("PM2.5" :> "pm25") @@ ("O3" :> "o3") @@ ("NO2" :> "no2") @@
    ("CH2O" :> "ch2o") @@ ("CO" :> "co") @@ ("AOD" :> "aod")

\* lines 160-178 charting every species of results that has a reading
pollutantsOfAnySpecies(results) ==
    LET labelKey == pollutantKey @@ ("SO2" :> "so2")
        present == {l \in DOMAIN labelKey : Truthy(Get(results, labelKey[l]))}
    IN  [l \in present |->
            [value |-> Get(Get(results, labelKey[l]), "value"),
             risk |-> Get(Get(results, labelKey[l]), "status")]]

\* lines 160-178
pollutantsOf(results) ==
    LET present == {l \in DOMAIN pollutantKey : Truthy(Get(results, pollutantKey[l]))}
    IN  [l \in present |->
            [value |-> Get(Get(results, pollutantKey[l]), "value"),
             risk |-> Get(Get(results, pollutantKey[l]), "status")]]

\* line 197
vizKey(viz) ==
    templateString(Get(viz, "type")) \o <<"-">> \o templateString(Get(viz, "title"))

\* lines 189-205 without the check of line 200
keepVizNoSeenCheck(viz, seen) ==
    IF Get(viz, "type") = Str(txtLine) THEN FALSE
    ELSE IF /\ Truthy(Get(viz, "title"))
            /\ includes(toLowerCase(Get(viz, "title").s), txtPollutantComparison)
        THEN FALSE
    ELSE TRUE

\* lines 189-205: what the filter callback returns for viz, given `seen`
keepViz(viz, seen) ==
    IF Get(viz, "type") = Str(txtLine) THEN FALSE
    ELSE IF /\ Truthy(Get(viz, "title"))
            /\ includes(toLowerCase(Get(viz, "title").s), txtPollutantComparison)
        THEN FALSE
    ELSE IF vizKey(viz) \in seen THEN FALSE
    ELSE TRUE

\* Array.prototype.filter with that callback, from position i; the callback
\* adds the key of each entry it keeps to `seen` (line 203)
RECURSIVE filterVisualizations(_, _, _)
filterVisualizations(items, i, seen) ==
    IF i > Len(items) THEN << >>
    ELSE IF keepViz(items[i], seen)
        THEN << items[i] >> \o
             filterVisualizations(items, i + 1, seen \cup {vizKey(items[i])})
    ELSE filterVisualizations(items, i + 1, seen)

\* lines 186-206
filteredVisualizationsOf(dashboardDetails) ==
    IF Truthy(Get(dashboardDetails, "visualizations"))
    THEN filterVisualizations(Get(dashboardDetails, "visualizations").items, 1, {})
    ELSE << >>

\* analysis.recommendations?.[0]
firstRecommendation(recs) ==
    IF recs.t = "array" /\ Len(recs.items) > 0 THEN recs.items[1] ELSE Undefined

\* lines 103-221: the view model built from the payload
apiViewModel(query, data, r) ==
    LET analysis == data.metadata.analysis
        results == Or(Get(analysis, "results"), EmptyObject)
        dashboardDetails == Or(Get(data, "dashboard_details"), EmptyObject)
        aqiData == Or(Get(results, "aqi"), EmptyObject)
        currentAQI == currentAQIOf(aqiData, dashboardDetails)
        extractedTime == extractTimeFromQuery(query)
    IN  IF extractedTime = Throw THEN Throw
        ELSE [t |-> "viewmodel",
              location |-> Or(Get(dashboardDetails, "location"),
                              Str(txtCurrentLocation)),
              currentAQI |-> Num(Round(currentAQI.n)),
              healthRisk |-> Or(Get(aqiData, "status"), Str(txtUnknown)),
              recommendation |->
                  Or(firstRecommendation(Get(analysis, "recommendations")),
                     Str(txtNoRecommendations)),
              recommendations |->
                  Or(Get(analysis, "recommendations"),
                     [t |-> "array", items |-> << >>]),
              timeData |-> timeDataOf(dashboardDetails, currentAQI, extractedTime, r),
              pollutants |-> pollutantsOf(results),
              mapCenter |-> mapCenterOf(dashboardDetails),
              temperature |->
                  IF Truthy(Get(results, "temperature"))
                  THEN Get(Get(results, "temperature"), "value") ELSE Null,
              windSpeed |->
                  IF Truthy(Get(results, "wind_speed"))
                  THEN Get(Get(results, "wind_speed"), "value") ELSE Null,
              visualizations |->
                  [t |-> "array", items |-> filteredVisualizationsOf(dashboardDetails)]]

\* lines 224-226 with the test for 'dublin' ahead of the one for 'maryland'
gazetteerLocationDublinFirst(queryString) ==
    IF includes(queryString, txtDublin) THEN Str(txtDublinName)
    ELSE IF includes(queryString, txtMaryland) THEN Str(txtMarylandPark)
    ELSE IF includes(queryString, txtCork) THEN Str(txtCorkName)
    ELSE Str(txtCurrentLocation)

\* lines 224-226
gazetteerLocation(queryString) ==
    IF includes(queryString, txtMaryland) THEN Str(txtMarylandPark)
    ELSE IF includes(queryString, txtDublin) THEN Str(txtDublinName)
    ELSE IF includes(queryString, txtCork) THEN Str(txtCorkName)
    ELSE Str(txtCurrentLocation)

\* lines 236-244
mockTimeData ==
    << [time |-> <<"1", "2", ":", "0", "0">>, aqi |-> 380],
       [time |-> <<"1", "3", ":", "0", "0">>, aqi |-> 420],
       [time |-> <<"1", "4", ":", "0", "0">>, aqi |-> 450],
       [time |-> <<"1", "5", ":", "0", "0">>, aqi |-> 480],
       [time |-> <<"1", "6", ":", "0", "0">>, aqi |-> 440],
       [time |-> <<"1", "7", ":", "0", "0">>, aqi |-> 400],
       [time |-> <<"1", "8", ":", "0", "0">>, aqi |-> 360] >>

\* lines 223-250: the view model built without a payload
mockViewModel(query) ==
    LET queryString == queryStringOf(query)
        asthma == includes(queryString, txtAsthma)
    IN  [t |-> "viewmodel",
         location |-> gazetteerLocation(queryString),
         currentAQI |-> Num(DefaultAQI),
         healthRisk |-> IF asthma THEN Str(txtModerateRisk) ELSE Str(txtLowRisk),
         recommendation |->
             IF asthma THEN Str(txtConsiderIndoor) ELSE Str(txtSafeOutdoor),
         recommendations |-> [t |-> "array", items |-> << Str(txtNoApiData) >>],
         timeData |-> mockTimeData,
         pollutants |->
             [l \in {"PM2.5", "O3"} |->
                 IF l = "PM2.5"
                 THEN [value |-> Num(125),
                       risk |-> IF asthma THEN Str(txtHigh) ELSE Str(txtModerate)]
                 ELSE [value |-> Num(358),
                       risk |-> IF asthma THEN Str(txtModerate) ELSE Str(txtLow)]],
         mapCenter |->
             IF includes(queryString, txtDublin) THEN dublinMapCenter
             ELSE defaultMapCenter]

generateQuerySpecificData(query, data, r) ==
    IF hasAnalysis(data) THEN apiViewModel(query, data, r)
    ELSE mockViewModel(query)

-----------------------------------------------------------------------------
(* Inputs of the pure functions *)

\* longest string tried exhaustively as a query of extractTimeFromQuery
MaxLen == 4

ParserAlphabet == {"0", "1", "2", "3", ":", " ", "a", "p", "m", "P", "x"}

StringsUpTo(n) == UNION {[1..k -> ParserAlphabet] : k \in 0..n}

\* the queries of the specification's examples and of the boundary cases
ParserExamples ==
    { <<"2", ":", "0", "0", "p", "m">>,
      <<"1", "4", ":", "0", "0">>,
      <<"2", "4", ":", "0", "0">>,
      <<"7", ":", "7", "5">>,
      <<"1", "1", ":", "3", "0", "p", "m">>,
      <<"1", "2", ":", "0", "5", " ", "A", "M">>,
      <<"a", "t", " ", "9", " ", "p", "m", " ", "o", "r", " ", "1", "0", ":", "1", "5">>,
      <<"n", "o", " ", "t", "i", "m", "e", " ", "h", "e", "r", "e">> }

\* values that are not strings: null, undefined, 0, 5, NaN, {} and []
NonStrings ==
    { Null, Undefined, Num(0), Num(50), NaN, EmptyObject,
      [t |-> "array", items |-> << >>] }

ParserInputs ==
    {Str(s) : s \in StringsUpTo(MaxLen) \cup ParserExamples} \cup NonStrings

\* base values of a forecast, in tenths: 0, 42, 50 and 55.7
ForecastBases == {0, 420, 500, 557}

\* (Math.random() * 6) - 3 lies in [-3, 3): the ends and two inner values
ForecastDraws == {-30, -5, 29}

HourStrings == {padStart2(IntToString(h)) \o <<":", "0", "0">> : h \in 0..23}

\* 'HH:00' for every hour, a time with minutes, the '14:NaN' that
\* extractTimeFromQuery builds for '2pm', and no time
ForecastTargets ==
    {Str(s) : s \in HourStrings}
        \cup { Str(<<"0", "7", ":", "4", "5">>),
               Str(<<"1", "4", ":", "N", "a", "N">>),
               Null }

-----------------------------------------------------------------------------
(* Specifications of the pure functions: the inputs are drawn in the       *)
(* initial state and one step applies the function.                        *)

NoDraws == [k \in 1..6 |-> 0]

ParserIdle ==
    /\ tq = Undefined /\ tres = Undefined

ForecastIdle ==
    /\ fbase = 0 /\ ftarget = Null /\ fres = << >>

AppIdle ==
    /\ currentScreen = "landing" /\ aiResponse = Str(<< >>)
    /\ isLoading = FALSE /\ pending = {} /\ seq = 0 /\ shown = 0
    /\ outcome = << >> /\ queryOf = 0

MapperIdle ==
    /\ userQuery = Str(<< >>) /\ apiData = Null /\ vm = Undefined

DataIdle ==
    /\ env = [REACT_APP_USE_MOCK_DATA |-> Undefined, NODE_ENV |-> Undefined]
    /\ hook = Undefined /\ dsCall = [state |-> "idle"]
    /\ requests = << >> /\ attempts = 0 /\ fetches = << >>

InitParser ==
    /\ pc = "start"
    /\ tq \in ParserInputs
    /\ tres = Undefined
    /\ rnd = NoDraws
    /\ ForecastIdle /\ MapperIdle /\ AppIdle /\ DataIdle

ParseTime ==
    /\ pc = "start"
    /\ tres' = extractTimeFromQuery(tq)
    /\ pc' = "done"
    /\ UNCHANGED << tq, rnd, forecastVars, userQuery, apiData, vm, appVars, dataVars >>

NextParser == ParseTime

SpecParser == InitParser /\ [][NextParser]_vars

InitForecast ==
    /\ pc = "start"
    /\ fbase \in ForecastBases
    /\ ftarget \in ForecastTargets
    /\ rnd \in [1..6 -> ForecastDraws]
    /\ fres = << >>
    /\ ParserIdle /\ MapperIdle /\ AppIdle /\ DataIdle

Forecast ==
    /\ pc = "start"
    /\ fres' = generateHourlyForecast(fbase, ftarget, rnd)
    /\ pc' = "done"
    /\ UNCHANGED << fbase, ftarget, rnd, parserVars, userQuery, apiData, vm, appVars, dataVars >>

NextForecast == Forecast

SpecForecast == InitForecast /\ [][NextForecast]_vars

-----------------------------------------------------------------------------
(* Inputs of generateQuerySpecificData: the props of QueryDashboard *)

Array(items) == [t |-> "array", items |-> items]

\* the extractParameters response of section 6:
\* {display_text, dashboard_details, metadata: {analysis: {results,
\*  recommendations}, context}, statusCode}; the status code is a plain
\* integer, not a quantity in tenths
Payload(text, results, recs, dashboardDetails) ==
    [t |-> "object",
     display_text |-> text,
     statusCode |-> Num(200),
     dashboard_details |-> dashboardDetails,
     metadata |-> [t |-> "object",
                   context |-> Undefined,
                   analysis |-> [t |-> "object",
                                 results |-> results,
                                 recommendations |-> recs]]]

DashboardDetails(aqi, location, visualizations) ==
    [t |-> "object", aqi |-> aqi, location |-> location,
     visualizations |-> visualizations]

Reading(value, status) == [t |-> "object", value |-> value, status |-> status]

\* the keys of results next to aqi: the six chart species, one species that
\* has no chart label, and the weather readings
SpeciesKeys ==
    {"pm25", "o3", "no2", "ch2o", "co", "aod", "so2", "temperature", "wind_speed"}

\* results with the aqi entry and the species entries given
Results(aqi, species) ==
    [k \in {"t", "aqi"} \cup DOMAIN species |->
        IF k = "t" THEN "object" ELSE IF k = "aqi" THEN aqi ELSE species[k]]

\* most species entries a results object of the model carries
MaxSpecies == 2

SpeciesChoices ==
    UNION { [ks -> {Null, Num(0), Reading(Num(125), Str(txtModerate))}] :
              ks \in {x \in SUBSET SpeciesKeys : Cardinality(x) <= MaxSpecies} }

NoSpecies == [k \in {} |-> Null]

AqiValues == {Undefined, Null, Num(0), Num(557)}

AqiEntries ==
    {Undefined} \cup
    {Reading(v, st) : v \in AqiValues, st \in {Undefined, Str(txtModerate)}}

DashboardAqis == {Undefined, Num(0), Num(610)}

txtStayIn == << "S", "t", "a", "y", " ", "i", "n" >>

RecommendationLists ==
    {Undefined, Null, Array(<< >>), Array(<< Str(txtStayIn), Str(txtLow) >>)}

Timestamp(hour) == [t |-> "timestamp", hour |-> hour]

Visualization(type, title, data) ==
    [t |-> "object", type |-> type, title |-> title, data |-> data]

txtX == << "X" >>
txtPollutantComparisonTitle ==
    << "P", "o", "l", "l", "u", "t", "a", "n", "t", " ", "C", "o", "m", "p",
       "a", "r", "i", "s", "o", "n" >>

MapData ==
    { Undefined,
      [t |-> "object", lat |-> Num(533498), lon |-> Num(-62603)],
      [t |-> "object", lat |-> Num(0), lon |-> Num(-62603)] }

LineData ==
    { Undefined,
      [t |-> "object", timestamp |-> Timestamp(9), value |-> Num(305)],
      [t |-> "object", timestamp |-> Timestamp(22), value |-> Num(0)] }

\* the title of an entry decides what the filter does with it and its data
\* what mapCenter and timeData are: each is varied with the other fixed
VizEntries ==
    {Visualization(Str(txtMap), Str(txtX), d) : d \in MapData}
    \cup {Visualization(Str(txtMap), ti, Undefined) :
        ti \in {Undefined, Str(txtPollutantComparisonTitle)}}
    \cup {Visualization(Str(txtLine), Str(txtX), d) : d \in LineData}
    \cup {Visualization(Str(txtLine), Undefined, Undefined)}
    \cup {Visualization(Str(txtBar), ti, Undefined) :
        ti \in {Undefined, Str(txtX), Str(txtPollutantComparisonTitle),
                Str(txtUndefined)}}
    \cup {Visualization(Undefined, ti, Undefined) : ti \in {Undefined, Str(txtX)}}

\* longest visualization list tried exhaustively
MaxViz == 2

\* the list of the specification's filter example:
\* [line, (bar, 'X'), (bar, 'X'), (map, 'Pollutant Comparison')]
ExampleVizList ==
    << Visualization(Str(txtLine), Str(txtX), Undefined),
       Visualization(Str(txtBar), Str(txtX), Undefined),
       Visualization(Str(txtBar), Str(txtX), Undefined),
       Visualization(Str(txtMap), Str(txtPollutantComparisonTitle), Undefined) >>

VizLists ==
    UNION {[1..k -> VizEntries] : k \in 0..MaxViz} \cup {ExampleVizList}

FullResults == Results(Reading(Num(557), Str(txtModerate)), NoSpecies)

\* payloads that lack a part: no payload, no metadata, no analysis, and an
\* analysis whose results, recommendations or dashboard_details are missing
ShapePayloads ==
    { Null, Undefined, EmptyObject,
      [t |-> "object", metadata |-> EmptyObject],
      [t |-> "object", metadata |-> [t |-> "object", analysis |-> Null]] }
    \cup { Payload(Undefined, rs, rc, d) :
             rs \in {Undefined, Null, EmptyObject},
             rc \in {Undefined, Null},
             d \in { Undefined, Null, EmptyObject,
                     DashboardDetails(Undefined, Undefined, Null) } }

ValuePayloads ==
    { Payload(Str(txtStayIn), Results(aq, NoSpecies), rc,
              DashboardDetails(da, loc, Undefined)) :
        aq \in AqiEntries, rc \in RecommendationLists, da \in DashboardAqis,
        loc \in {Undefined, Str(txtDublinName)} }

SpeciesPayloads ==
    { Payload(Str(txtStayIn), Results(Undefined, sp), Undefined, Undefined) :
        sp \in SpeciesChoices }

\* results.aqi is present in these: dashboard_details.aqi is never read
VizPayloads ==
    { Payload(Str(txtStayIn), FullResults, Undefined,
              DashboardDetails(Undefined, Undefined, Array(vl))) :
        vl \in VizLists }

ApiPayloads == ShapePayloads \cup ValuePayloads \cup SpeciesPayloads \cup VizPayloads

qDublin2pm ==
    << "A", "s", "t", "h", "m", "a", ",", " ", "D", "u", "b", "l", "i", "n",
       " ", "a", "t", " ", "2", "p", "m" >>
qCork == << "c", "o", "r", "k", " ", "1", "4", ":", "0", "0" >>
qMarylandDublin ==
    << "d", "u", "b", "l", "i", "n", " ", "o", "r", " ", "M", "a", "r", "y",
       "l", "a", "n", "d" >>
qPlain == << "i", "s", " ", "i", "t", " ", "s", "a", "f", "e" >>

\* the userQuery prop: App passes a string; the mapper also guards against
\* values that are not strings (line 100)
CoreQueries == {Str(<< >>), Str(qDublin2pm), Str(qPlain), Num(50)}

AllQueries ==
    CoreQueries \cup {Str(qCork), Str(qMarylandDublin), Undefined, Null, EmptyObject}

\* the queries tried with every visualization list and every choice of
\* species: one with a time, one without
VizQueries == {Str(qDublin2pm), Str(qPlain)}

MapperDraws == { [k \in 1..6 |-> -30], << 29, -5, 0, 14, -16, 5 >> }

\* the draws of the first render of QueryDashboard
FirstDraws == << 29, -5, 0, 14, -16, 5 >>

InitMapper ==
    /\ pc = "start"
    /\ \/ apiData \in ShapePayloads /\ userQuery \in CoreQueries
       \/ apiData \in ValuePayloads /\ userQuery \in CoreQueries
       \/ apiData \in SpeciesPayloads /\ userQuery \in VizQueries
       \/ apiData \in VizPayloads /\ userQuery \in VizQueries
       \/ apiData \in ShapePayloads /\ userQuery \in AllQueries
    /\ rnd = FirstDraws
    /\ vm = Undefined
    /\ ParserIdle /\ ForecastIdle /\ AppIdle /\ DataIdle

\* QueryDashboard renders: line 253
Render ==
    /\ pc = "start"
    /\ vm' = generateQuerySpecificData(userQuery, apiData, rnd)
    /\ pc' = "done"
    /\ UNCHANGED << userQuery, apiData, rnd, parserVars, forecastVars, appVars, dataVars >>

\* React renders QueryDashboard again: line 253 calls
\* generateQuerySpecificData anew, with the same props and fresh
\* Math.random() values (a third render reaches the states of the second)
Rerender ==
    /\ pc = "done"
    /\ rnd' \in MapperDraws
    /\ vm' = generateQuerySpecificData(userQuery, apiData, rnd')
    /\ pc' = "rerendered"
    /\ UNCHANGED << userQuery, apiData, parserVars, forecastVars, appVars, dataVars >>

NextMapper == Render \/ Rerender

SpecMapper == InitMapper /\ [][NextMapper]_vars

-----------------------------------------------------------------------------
(* App: App.js *)

\* line 41
txtCouldNotProcess ==
    << "I", " ", "c", "o", "u", "l", "d", "n", "'", "t", " ", "p", "r", "o",
    "c", "e", "s", "s", " ", "y", "o", "u", "r", " ", "q", "u", "e", "r",
    "y", ".", " ", "P", "l", "e", "a", "s", "e", " ", "t", "r", "y", " ",
    "a", "g", "a", "i", "n", "." >>

\* line 49
txtErrorProcessing ==
    << "I", "'", "m", " ", "s", "o", "r", "r", "y", ",", " ", "I", " ", "e",
    "n", "c", "o", "u", "n", "t", "e", "r", "e", "d", " ", "a", "n", " ",
    "e", "r", "r", "o", "r", " ", "p", "r", "o", "c", "e", "s", "s", "i",
    "n", "g", " ", "y", "o", "u", "r", " ", "r", "e", "q", "u", "e", "s",
    "t", ".", " ", "P", "l", "e", "a", "s", "e", " ", "t", "r", "y", " ",
    "a", "g", "a", "i", "n", "." >>

\* String.prototype.trim
RECURSIVE trimStart(_)
trimStart(s) == IF s # << >> /\ IsSpace(Head(s)) THEN trimStart(Tail(s)) ELSE s

RECURSIVE trimEnd(_)
trimEnd(s) ==
    IF s # << >> /\ IsSpace(s[Len(s)]) THEN trimEnd(SubSeq(s, 1, Len(s) - 1)) ELSE s

trim(s) == trimEnd(trimStart(s))

\* line 20 and line 66: a non-empty string that is not only blanks
isValidQuery(query) ==
    /\ Truthy(query)
    /\ query.t = "string"
    /\ trim(query.s) # << >>

\* submissions accepted in one behaviour
MaxSeq == 3

q2pm == << " ", "2", "p", "m", " " >>
qAsthma == << "a", "s", "t", "h", "m", "a" >>

\* what handleQuerySubmit and handleNewQuery are called with: query texts,
\* blank and empty strings, a click event, undefined and a number
AppQueries ==
    { Str(q2pm), Str(qAsthma), Str(<< >>), Str(<< " ", " " >>),
      EmptyObject, Undefined, Num(50) }

\* what extractParameters resolves with
ApiResponses ==
    { Payload(Str(txtStayIn), FullResults, Array(<< Str(txtStayIn) >>),
              DashboardDetails(Num(610), Str(txtDublinName), Undefined)),
      Payload(Undefined, Results(Undefined, NoSpecies), Undefined, Undefined),
      [t |-> "object", display_text |-> Str(txtLow), statusCode |-> Num(200)] }

InitApp ==
    /\ pc = "app"
    /\ currentScreen = "landing"
    /\ userQuery = Str(<< >>)
    /\ aiResponse = Str(<< >>)
    /\ apiData = Null
    /\ isLoading = FALSE
    /\ pending = {}
    /\ seq = 0
    /\ shown = 0
    /\ outcome = << >>
    /\ queryOf = 0
    /\ vm = Undefined
    /\ rnd \in MapperDraws
    /\ ParserIdle /\ ForecastIdle /\ DataIdle

\* lines 109-117: QueryDashboard is rendered on the query-dashboard screen
\* and builds its view model from the userQuery and apiData props
rendered(screen, query, data, old) ==
    IF screen = "query-dashboard" THEN generateQuerySpecificData(query, data, rnd)
    ELSE old

\* lines 18-33: handleQuerySubmit up to the await
handleQuerySubmit(query) ==
    IF ~isValidQuery(query) THEN UNCHANGED vars
    ELSE /\ seq < MaxSeq
         /\ isLoading' = TRUE
         /\ userQuery' = Str(trim(query.s))
         /\ seq' = seq + 1
         /\ pending' = pending \cup {[id |-> seq + 1, prompt |-> trim(query.s)]}
         /\ outcome' = Append(outcome, "pending")
         /\ queryOf' = seq + 1
         /\ UNCHANGED << currentScreen, aiResponse, apiData, shown, vm, pc,
                         rnd, parserVars, forecastVars, dataVars >>

\* LandingPage's ChatInput calls onQuerySubmit
LandingSubmit ==
    /\ currentScreen = "landing"
    /\ \E query \in AppQueries : handleQuerySubmit(query)

\* lines 65-74: handleNewQuery, called by ResponseScreen's ChatInput with a
\* query and by its New Query button with the click event
handleNewQuery ==
    /\ currentScreen = "response"
    /\ \E newQuery \in AppQueries :
        IF isValidQuery(newQuery) THEN handleQuerySubmit(newQuery)
        ELSE /\ currentScreen' = "landing"
             /\ userQuery' = Str(<< >>)
             /\ aiResponse' = Str(<< >>)
             /\ queryOf' = 0
             /\ UNCHANGED << apiData, isLoading, pending, seq, shown, outcome,
                             vm, pc, rnd, parserVars, forecastVars, dataVars >>

\* lines 35-45 and 52-54: the call of submission p resolved with response
tryBranch(p, response) ==
    /\ aiResponse' = Or(Get(response, "display_text"), Str(txtCouldNotProcess))
    /\ apiData' = response
    /\ currentScreen' = "response"
    /\ isLoading' = FALSE
    /\ shown' = p.id
    /\ outcome' = [outcome EXCEPT ![p.id] = "ok"]

\* lines 46-54 without the setCurrentScreen('response') of line 51
catchBranchKeepsScreen(p) ==
    /\ aiResponse' = Str(txtErrorProcessing)
    /\ apiData' = Null
    /\ currentScreen' = currentScreen
    /\ isLoading' = FALSE
    /\ shown' = p.id
    /\ outcome' = [outcome EXCEPT ![p.id] = "failed"]

\* lines 46-54: the call of submission p was rejected
catchBranch(p) ==
    /\ aiResponse' = Str(txtErrorProcessing)
    /\ apiData' = Null
    /\ currentScreen' = "response"
    /\ isLoading' = FALSE
    /\ shown' = p.id
    /\ outcome' = [outcome EXCEPT ![p.id] = "failed"]

ResponseArrives ==
    \E p \in pending : \E response \in ApiResponses :
        /\ tryBranch(p, response)
        /\ pending' = pending \ {p}
        /\ UNCHANGED << userQuery, seq, queryOf, vm, pc, rnd, parserVars,
                        forecastVars, dataVars >>

CallFails ==
    \E p \in pending :
        /\ catchBranch(p)
        /\ pending' = pending \ {p}
        /\ UNCHANGED << userQuery, seq, queryOf, vm, pc, rnd, parserVars,
                        forecastVars, dataVars >>

\* lines 57-59, from the View Dashboard button of ResponseScreen
handleViewDashboard ==
    /\ currentScreen = "response"
    /\ currentScreen' = "query-dashboard"
    /\ vm' = rendered("query-dashboard", userQuery, apiData, vm)
    /\ UNCHANGED << userQuery, aiResponse, apiData, isLoading, pending, seq,
                    shown, outcome, queryOf, pc, rnd, parserVars, forecastVars, dataVars >>

\* lines 61-63, from the button of QueryDashboard
handleAdvancedDashboard ==
    /\ currentScreen = "query-dashboard"
    /\ currentScreen' = "advanced-dashboard"
    /\ UNCHANGED << userQuery, aiResponse, apiData, isLoading, pending, seq,
                    shown, outcome, queryOf, vm, pc, rnd, parserVars,
                    forecastVars, dataVars >>

\* lines 77-89 with every case returning to the landing page
backTargetAlwaysLanding(screen) == "landing"

\* lines 77-89: the screen handleBack moves to
backTarget(screen) ==
    CASE screen = "response" -> "landing"
      [] screen = "query-dashboard" -> "response"
      [] screen = "advanced-dashboard" -> "query-dashboard"
      [] OTHER -> "landing"

\* lines 76-90, from the back buttons of QueryDashboard and AdvancedDashboard
handleBack ==
    /\ currentScreen \in {"query-dashboard", "advanced-dashboard"}
    /\ currentScreen' = backTarget(currentScreen)
    /\ vm' = rendered(backTarget(currentScreen), userQuery, apiData, vm)
    /\ UNCHANGED << userQuery, aiResponse, apiData, isLoading, pending, seq,
                    shown, outcome, queryOf, pc, rnd, parserVars, forecastVars, dataVars >>

Next ==
    \/ LandingSubmit
    \/ handleNewQuery
    \/ ResponseArrives
    \/ CallFails
    \/ handleViewDashboard
    \/ handleAdvancedDashboard
    \/ handleBack

Spec == InitApp /\ [][Next]_vars

\* every extractParameters call settles: the API client gives up after its
\* timeout of 60 s (dataService.js line 249), which rejects the promise
SpecSettling == InitApp /\ [][Next]_vars /\ WF_vars(ResponseArrives \/ CallFails)

-----------------------------------------------------------------------------
(* DataService (services/dataService.js lines 1-239), ApiService (the     *)
(* apiService module, lines 241-441 of the same file) and the data hooks   *)
(* of hooks/useApi.js                                                      *)

txtTrue ==
    << "t", "r", "u", "e" >>

txtFalse ==
    << "f", "a", "l", "s", "e" >>

txtDevelopment ==
    << "d", "e", "v", "e", "l", "o", "p", "m", "e", "n", "t" >>

txtProduction ==
    << "p", "r", "o", "d", "u", "c", "t", "i", "o", "n" >>

txtTest ==
    << "t", "e", "s", "t" >>

\* dataService.js line 4: the flag is computed once, when the module loads
USE_MOCK_DATA ==
    \/ env.REACT_APP_USE_MOCK_DATA = Str(txtTrue)
    \/ env.NODE_ENV = Str(txtDevelopment)

\* environment.js line 5
useMockData ==
    \/ env.REACT_APP_USE_MOCK_DATA = Str(txtTrue)
    \/ env.NODE_ENV = Str(txtDevelopment)

\* environment.js line 21
retryAttempts == 3

\* a parameter with a default value: `location = null`, `days = 7`
defaultTo(v, d) == IF v = Undefined THEN d ELSE v

\* new Error(message)
Error(message) == [t |-> "error", message |-> Str(message)]

\* err.message
messageOf(err) == IF err.t = "error" THEN err.message ELSE Undefined

txtSubmitQueryFailed ==
    << "F", "a", "i", "l", "e", "d", " ", "t", "o", " ", "p", "r", "o",
       "c", "e", "s", "s", " ", "q", "u", "e", "r", "y" >>

txtGetCurrentAirQualityFailed ==
    << "F", "a", "i", "l", "e", "d", " ", "t", "o", " ", "f", "e", "t",
       "c", "h", " ", "c", "u", "r", "r", "e", "n", "t", " ", "a", "i",
       "r", " ", "q", "u", "a", "l", "i", "t", "y", " ", "d", "a", "t",
       "a" >>

txtGetAirQualityForecastFailed ==
    << "F", "a", "i", "l", "e", "d", " ", "t", "o", " ", "f", "e", "t",
       "c", "h", " ", "a", "i", "r", " ", "q", "u", "a", "l", "i", "t",
       "y", " ", "f", "o", "r", "e", "c", "a", "s", "t" >>

txtGetQuerySpecificDataFailed ==
    << "F", "a", "i", "l", "e", "d", " ", "t", "o", " ", "f", "e", "t",
       "c", "h", " ", "q", "u", "e", "r", "y", "-", "s", "p", "e", "c",
       "i", "f", "i", "c", " ", "d", "a", "t", "a" >>

txtGetPollutantDataFailed ==
    << "F", "a", "i", "l", "e", "d", " ", "t", "o", " ", "f", "e", "t",
       "c", "h", " ", "p", "o", "l", "l", "u", "t", "a", "n", "t", " ",
       "d", "a", "t", "a" >>

txtGetHealthImpactDataFailed ==
    << "F", "a", "i", "l", "e", "d", " ", "t", "o", " ", "f", "e", "t",
       "c", "h", " ", "h", "e", "a", "l", "t", "h", " ", "i", "m", "p",
       "a", "c", "t", " ", "d", "a", "t", "a" >>

txtGetRegionalDataFailed ==
    << "F", "a", "i", "l", "e", "d", " ", "t", "o", " ", "f", "e", "t",
       "c", "h", " ", "r", "e", "g", "i", "o", "n", "a", "l", " ", "d",
       "a", "t", "a" >>

txtAnErrorOccurred ==
    << "A", "n", " ", "e", "r", "r", "o", "r", " ", "o", "c", "c", "u",
       "r", "r", "e", "d" >>

txtTypeError ==
    << "C", "a", "n", "n", "o", "t", " ", "r", "e", "a", "d", " ", "p",
       "r", "o", "p", "e", "r", "t", "i", "e", "s", " ", "o", "f", " ",
       "n", "u", "l", "l", " ", "(", "r", "e", "a", "d", "i", "n", "g",
       " ", "'", "r", "e", "s", "p", "o", "n", "s", "e", "'", ")" >>

\* the message of the Error each ApiService operation throws from its catch
apiErrorMessage ==
    [ submitQuery |-> txtSubmitQueryFailed,
      getCurrentAirQuality |-> txtGetCurrentAirQualityFailed,
      getAirQualityForecast |-> txtGetAirQualityForecastFailed,
      getQuerySpecificData |-> txtGetQuerySpecificDataFailed,
      getPollutantData |-> txtGetPollutantDataFailed,
      getHealthImpactData |-> txtGetHealthImpactDataFailed,
      getRegionalData |-> txtGetRegionalDataFailed ]

\* an ApiService operation whose catch block returns null
apiOnErrorSilentNull(op) == [state |-> "fulfilled", value |-> Null]

\* the catch block of an ApiService operation: throw new Error(...)
apiOnError(op) == [state |-> "rejected", value |-> Error(apiErrorMessage[op])]

\* the try block of an ApiService operation: return response.data
apiOnResponse(data) == [state |-> "fulfilled", value |-> data]

\* the parameter values of a DataService operation called with `given`
\* (lines 159, 170, 180, 190, 200, 210); days is a plain integer
dsParams(name, given) ==
    CASE name = "getCurrentAirQuality" -> << defaultTo(given[1], Null) >>
      [] name = "getAirQualityForecast" ->
            << defaultTo(given[1], Null), defaultTo(given[2], Num(7)) >>
      [] name = "getRegionalData" -> << defaultTo(given[1], Null) >>
      [] name = "getAdvancedData" -> << >>
      [] OTHER -> << given[1] >>

\* lines 166-222 passing no argument on
apiCallsOfDroppingArguments(name, params) ==
    IF name = "getAdvancedData"
    THEN << [op |-> "getRegionalData", args |-> << >>],
            [op |-> "getAirQualityForecast", args |-> << Null, Num(7) >>],
            [op |-> "getPollutantData", args |-> << >>],
            [op |-> "getHealthImpactData", args |-> << >>] >>
    ELSE << [op |-> name, args |-> << >>] >>

\* the ApiService calls a DataService operation makes when the flag is not
\* set: lines 166, 176, 186, 196, 206 and 217-222
apiCallsOf(name, params) ==
    IF name = "getAdvancedData"
    THEN << [op |-> "getRegionalData", args |-> << >>],
            [op |-> "getAirQualityForecast", args |-> << Null, Num(7) >>],
            [op |-> "getPollutantData", args |-> << >>],
            [op |-> "getHealthImpactData", args |-> << >>] >>
    ELSE << [op |-> name, args |-> params] >>

\* what a mockData generator returns: the generators fill their results
\* with Math.sin and Math.random values, of which the model keeps the
\* generator and its argument
Mock(generator, args) == [t |-> "mock", generator |-> generator, args |-> args]

\* mockData.generateQuerySpecificData, lines 71-105: the fields computed
\* from the query
mockQueryData(query) ==
    LET queryString == IF Truthy(query) /\ query.t = "string"
                       THEN toLowerCase(query.s) ELSE << >>
    IN  [t |-> "object",
         location |->
             IF includes(queryString, txtMaryland) THEN Str(txtMarylandPark)
             ELSE IF includes(queryString, txtDublin) THEN Str(txtDublinName)
             ELSE IF includes(queryString, txtCork) THEN Str(txtCorkName)
             ELSE Str(txtCurrentLocation),
         currentAQI |-> Num(DefaultAQI),
         healthRisk |->
             IF includes(queryString, txtAsthma) THEN Str(txtModerateRisk)
             ELSE Str(txtLowRisk),
         recommendation |->
             IF includes(queryString, txtAsthma) THEN Str(txtConsiderIndoor)
             ELSE Str(txtSafeOutdoor),
         timeData |-> Mock("timeData", << >>),
         mapCenter |->
             IF includes(queryString, txtDublin) THEN dublinMapCenter
             ELSE defaultMapCenter]

\* what a DataService operation resolves with when the flag is set:
\* lines 163, 173, 183, 193, 203 and 213
synthetic(name, params) ==
    CASE name = "submitQuery" ->
            [t |-> "object", response |-> Mock("generateAIResponse", params)]
      [] name = "getCurrentAirQuality" -> Mock("generateCurrentAirQuality", << >>)
      [] name = "getAirQualityForecast" -> Mock("generateForecast", << params[2] >>)
      [] name = "getQuerySpecificData" -> mockQueryData(params[1])
      [] name = "getRegionalData" -> Mock("generateRegionalData", << >>)
      [] name = "getAdvancedData" -> Mock("generateAdvancedData", << >>)

\* the promise of a DataService operation once its ApiService call i has
\* settled: `return await apiService.f(...)`, and for getAdvancedData the
\* Promise.all of lines 217-224
dsAfter(name, reqs, i) ==
    IF reqs[i].state = "rejected"
    THEN [state |-> "rejected", value |-> reqs[i].value]
    ELSE IF \A k \in 1..Len(reqs) : reqs[k].state = "fulfilled"
    THEN [state |-> "fulfilled",
          value |-> IF name = "getAdvancedData"
                    THEN [t |-> "object",
                          locations |-> reqs[1].value,
                          forecast |-> reqs[2].value,
                          pollutants |-> reqs[3].value,
                          health |-> reqs[4].value]
                    ELSE reqs[1].value]
    ELSE [state |-> "pending", value |-> Undefined]

\* the DataService operation each hook of useApi.js calls (lines 61-105)
HookOperation ==
    [ useCurrentAirQuality |-> "getCurrentAirQuality",
      useAirQualityForecast |-> "getAirQualityForecast",
      useQueryData |-> "getQuerySpecificData",
      useRegionalData |-> "getRegionalData",
      useAdvancedData |-> "getAdvancedData",
      useQuerySubmission |-> "submitQuery" ]

\* useApi.js lines 6-8 and 96-98: the state a hook starts with
initialHook(kind) ==
    [kind |-> kind, data |-> Null,
     loading |-> (kind # "useQuerySubmission"), error |-> Null]

\* the rest of fetchData (lines 22-38) and of submitQuery (lines 106-115)
\* once the awaited operation has settled
hookAfter(h, settled) ==
    IF settled.state = "pending" THEN h
    ELSE IF h.kind = "useQuerySubmission"
    THEN IF settled.state = "rejected"
         THEN [h EXCEPT !.error = Or(messageOf(settled.value),
                                     Str(txtSubmitQueryFailed)),
                        !.loading = FALSE]
         ELSE IF settled.value.t \in {"null", "undefined"}
         THEN \* result.response of null: a TypeError, caught at line 109
              [h EXCEPT !.error = Str(txtTypeError), !.loading = FALSE]
         ELSE [h EXCEPT !.data = Get(settled.value, "response"),
                        !.loading = FALSE]
    ELSE IF settled.state = "rejected"
         THEN [h EXCEPT !.error = Or(messageOf(settled.value),
                                     Str(txtAnErrorOccurred)),
                        !.loading = FALSE]
         ELSE [h EXCEPT !.data = settled.value, !.loading = FALSE]

\* the values of the two environment variables
MockDataSettings == {Undefined, Str(txtTrue), Str(txtFalse)}
NodeEnvs == {Str(txtDevelopment), Str(txtProduction), Str(txtTest)}

Locations == {Undefined, Null, Str(txtDublinName)}

\* what a component passes to its hook
HookArguments(kind) ==
    CASE kind = "useCurrentAirQuality" -> {<< l >> : l \in Locations}
      [] kind = "useAirQualityForecast" ->
            {<< l, d >> : l \in Locations, d \in {Undefined, Num(3)}}
      [] kind = "useQueryData" -> {<< Str(qAsthma) >>, << Str(qCork) >>}
      [] kind = "useRegionalData" -> {<< b >> : b \in {Undefined, Null, EmptyObject}}
      [] kind = "useAdvancedData" -> {<< >>}
      [] kind = "useQuerySubmission" -> {<< Str(qAsthma) >>, << Undefined >>}

\* response.data of a successful request: no body, or a body
ResponseBodies ==
    {Null, [t |-> "object", response |-> Str(txtStayIn)]}

InitData ==
    /\ pc = "data"
    /\ env \in [REACT_APP_USE_MOCK_DATA : MockDataSettings, NODE_ENV : NodeEnvs]
    /\ hook \in {initialHook(kind) : kind \in DOMAIN HookOperation}
    /\ dsCall = [state |-> "idle"]
    /\ requests = << >>
    /\ attempts = 0
    /\ fetches = << >>
    /\ rnd = NoDraws
    /\ ParserIdle /\ ForecastIdle /\ MapperIdle /\ AppIdle

\* useApi.js lines 16-21 (and 100-105): fetchData calls apiFunction once;
\* the DataService operation starts its timer or calls the ApiService
fetchData ==
    /\ pc = "data"
    /\ dsCall.state # "pending"
    /\ \E given \in HookArguments(hook.kind) :
        LET name == HookOperation[hook.kind]
            params == dsParams(name, given)
            calls == IF USE_MOCK_DATA THEN << >> ELSE apiCallsOf(name, params)
        IN  /\ hook' = [hook EXCEPT !.loading = TRUE, !.error = Null]
            /\ attempts' = 1
            /\ dsCall' = [state |-> "pending", name |-> name,
                          params |-> params, value |-> Undefined]
            /\ requests' = [k \in 1..Len(calls) |->
                                [op |-> calls[k].op, args |-> calls[k].args,
                                 http |-> "pending", state |-> "pending",
                                 value |-> Undefined]]
    /\ UNCHANGED << env, fetches, pc, rnd, parserVars, forecastVars, userQuery,
                    apiData, vm, appVars >>

\* the operation and the hook after the ApiService call i has settled
settle(settled) ==
    /\ dsCall' = [dsCall EXCEPT !.state = settled.state, !.value = settled.value]
    /\ hook' = hookAfter(hook, settled)

\* the simulated delay of a DataService operation ends (lines 162-163,
\* 172-173, 182-183, 192-193, 202-203, 212-213)
TimerFires ==
    /\ pc = "data"
    /\ dsCall.state = "pending"
    /\ USE_MOCK_DATA
    /\ settle([state |-> "fulfilled",
               value |-> synthetic(dsCall.name, dsCall.params)])
    /\ UNCHANGED << env, requests, attempts, fetches, pc, rnd, parserVars,
                    forecastVars, userQuery, apiData, vm, appVars >>

\* the ApiService call i has settled as `result`; a call that settles
\* after its operation did changes nothing else (Promise.all)
apiSettles(i, http, result) ==
    LET reqs == [requests EXCEPT ![i] = [@ EXCEPT !.http = http,
                                                  !.state = result.state,
                                                  !.value = result.value]]
    IN  /\ requests' = reqs
        /\ IF dsCall.state = "pending"
           THEN settle(dsAfter(dsCall.name, reqs, i))
           ELSE UNCHANGED << dsCall, hook >>

\* a request of the API client gets a response with a success status
RequestSucceeds ==
    /\ pc = "data"
    /\ \E i \in 1..Len(requests) : \E data \in ResponseBodies :
        /\ requests[i].http = "pending"
        /\ apiSettles(i, "ok", apiOnResponse(data))
    /\ UNCHANGED << env, attempts, fetches, pc, rnd, parserVars, forecastVars,
                    userQuery, apiData, vm, appVars >>

\* a request of the API client fails: network error, timeout or a status
\* outside 2xx; axios rejects and the interceptor of lines 271-285 rejects
\* again
RequestFails ==
    /\ pc = "data"
    /\ \E i \in 1..Len(requests) :
        /\ requests[i].http = "pending"
        /\ apiSettles(i, "failed", apiOnError(requests[i].op))
    /\ UNCHANGED << env, attempts, fetches, pc, rnd, parserVars, forecastVars,
                    userQuery, apiData, vm, appVars >>

NextData ==
    \/ fetchData
    \/ TimerFires
    \/ RequestSucceeds
    \/ RequestFails

SpecData == InitData /\ [][NextData]_vars

-----------------------------------------------------------------------------
(* useApi (hooks/useApi.js lines 5-58): fetchData calls that overlap.  A    *)
(* change of the dependencies (lines 41-45) and refetch (lines 48-50) call *)
(* fetchData whether or not an earlier call is still awaiting apiFunction. *)

\* most fetchData calls of one hook
MaxFetches == 3

\* what the apiFunction call of the k-th fetchData resolves with
resultOf(k) == [t |-> "object", request |-> Num(k)]

\* what an apiFunction call is rejected with: an Error with a message, or
\* one without
FetchErrors == {Error(txtGetRegionalDataFailed), Error(<< >>)}

InitHook ==
    /\ pc = "hook"
    /\ hook = initialHook("useApi")
    /\ fetches = << >>
    /\ env = [REACT_APP_USE_MOCK_DATA |-> Undefined, NODE_ENV |-> Undefined]
    /\ dsCall = [state |-> "idle"]
    /\ requests = << >>
    /\ attempts = 0
    /\ rnd = NoDraws
    /\ ParserIdle /\ ForecastIdle /\ MapperIdle /\ AppIdle

\* lines 16-21: fetchData up to the await
startFetch ==
    /\ pc = "hook"
    /\ Len(fetches) < MaxFetches
    /\ hook' = [hook EXCEPT !.loading = TRUE, !.error = Null]
    /\ fetches' = Append(fetches, [state |-> "pending", value |-> Undefined])
    /\ UNCHANGED << env, dsCall, requests, attempts, pc, rnd, parserVars,
                    forecastVars, userQuery, apiData, vm, appVars >>

\* lines 22-38: the rest of the k-th fetchData once its promise has settled
fetchSettles(k, settled) ==
    /\ fetches[k].state = "pending"
    /\ fetches' = [fetches EXCEPT ![k] = settled]
    /\ hook' = hookAfter(hook, settled)
    /\ UNCHANGED << env, dsCall, requests, attempts, pc, rnd, parserVars,
                    forecastVars, userQuery, apiData, vm, appVars >>

fetchResolves ==
    /\ pc = "hook"
    /\ \E k \in 1..Len(fetches) :
        fetchSettles(k, [state |-> "fulfilled", value |-> resultOf(k)])

fetchRejects ==
    /\ pc = "hook"
    /\ \E k \in 1..Len(fetches) : \E err \in FetchErrors :
        fetchSettles(k, [state |-> "rejected", value |-> err])

NextHook ==
    \/ startFetch
    \/ fetchResolves
    \/ fetchRejects

SpecHook == InitHook /\ [][NextHook]_vars

-----------------------------------------------------------------------------
(* AdvancedDashboard (components/AdvancedDashboard.js, the version that    *)
(* takes an apiData prop): the values its useMemo extracts on render       *)

\* line 411, in units of 0.0001 degree
irelandMapCenter == << Num(530000), Num(-75000) >>

\* Math.round of a payload value: ToNumber(undefined) is NaN and
\* ToNumber(null) is 0
mathRound(v) ==
    CASE v.t = "number" -> Num(Round(v.n))
      [] v.t = "null" -> Num(0)
      [] OTHER -> NaN

\* [A-Za-z\s] of line 431
IsLetterOrSpace(c) ==
    \/ IsSpace(c)
    \/ \E i \in 1..26 : UpperCase[i] = c \/ LowerCase[i] = c

\* lines 431-432: the first group of /in ([A-Za-z\s]+)/ in the prompt, the
\* leftmost match with the longest run, 'Unknown' without a match
promptLocation(s) ==
    LET starts == {i \in 1..(Len(s) - 3) :
                      /\ SubSeq(s, i, i + 2) = << "i", "n", " " >>
                      /\ IsLetterOrSpace(s[i + 3])}
        i == firstOf(starts)
        ends == {j \in (i + 3)..Len(s) :
                    \A k \in (i + 3)..j : IsLetterOrSpace(s[k])}
    IN  IF i = 0 THEN Str(txtUnknown)
        ELSE Str(SubSeq(s, i + 3, CHOOSE j \in ends : \A k \in ends : k <= j))

\* lines 419-425
advancedAQI(data) ==
    LET details == Get(data, "dashboard_details")
        results == Get(Get(Get(data, "metadata"), "analysis"), "results")
    IN  IF Truthy(details) /\ Truthy(Get(details, "aqi"))
        THEN mathRound(Get(details, "aqi"))
        ELSE IF Truthy(Get(results, "aqi"))
        THEN mathRound(Get(Get(results, "aqi"), "value"))
        ELSE Get(details, "aqi")

\* lines 428-434
advancedLocation(data) ==
    LET details == Get(data, "dashboard_details")
        prompt == Get(Get(Get(data, "metadata"), "context"), "original_prompt")
    IN  IF Truthy(details) /\ Truthy(Get(details, "location"))
        THEN Get(details, "location")
        ELSE IF Truthy(prompt) THEN promptLocation(prompt.s)
        ELSE Str(txtUnknown)

\* lines 437-443
advancedCenter(data) ==
    LET details == Get(data, "dashboard_details")
    IN  IF Truthy(details) /\ hasVisualizations(details)
        THEN LET items == Get(details, "visualizations").items
                 k == firstOf({i \in 1..Len(items) : isMapWithCoords(items[i])})
             IN  IF k # 0 THEN << items[k].data.lat, items[k].data.lon >>
                 ELSE irelandMapCenter
        ELSE irelandMapCenter

\* lines 410-449: line 412 reads apiData.dashboard_details.aqi before the
\* `if (apiData)` of line 417, a TypeError when apiData or its
\* dashboard_details is undefined or null
advancedData(data) ==
    IF ~(data.t = "object" /\ Get(data, "dashboard_details").t = "object")
    THEN Throw
    ELSE [t |-> "advanced",
          currentAQI |-> advancedAQI(data),
          currentLocation |-> advancedLocation(data),
          mapCenter |-> advancedCenter(data)]

\* App.js lines 118-123: AdvancedDashboard is rendered with onBack only, so
\* that its apiData prop is undefined
advancedDashboardProps == [t |-> "object"]

txtAirInCork == << "a", "i", "r", " ", "i", "n", " ", "C", "o", "r", "k", "?" >>

\* payloads that carry the prompt and no location
PromptPayloads ==
    { [Payload(Str(txtStayIn), FullResults, Undefined,
               DashboardDetails(Undefined, Undefined, Undefined))
          EXCEPT !.metadata.context =
                     [t |-> "object", original_prompt |-> Str(p)]] :
        p \in {txtAirInCork, qDublin2pm, qMarylandDublin, << >>} }

\* the apiData prop: what App passes, and what a caller that passes the
\* App state would
AdvancedProps ==
    {Get(advancedDashboardProps, "apiData")}
        \cup ShapePayloads \cup ValuePayloads \cup VizPayloads \cup PromptPayloads

InitAdvanced ==
    /\ pc = "mount"
    /\ apiData \in AdvancedProps
    /\ vm = Undefined
    /\ userQuery = Str(<< >>)
    /\ rnd = NoDraws
    /\ ParserIdle /\ ForecastIdle /\ AppIdle /\ DataIdle

\* the first render of AdvancedDashboard
RenderAdvanced ==
    /\ pc = "mount"
    /\ pc' = "mounted"
    /\ vm' = advancedData(apiData)
    /\ UNCHANGED << userQuery, apiData, rnd, parserVars, forecastVars, appVars,
                    dataVars >>

NextAdvanced == RenderAdvanced

SpecAdvanced == InitAdvanced /\ [][NextAdvanced]_vars

-----------------------------------------------------------------------------
(* Claims *)

\* C1: the response of an older submission never replaces the aiResponse
\* and apiData of a newer one: the submission whose outcome is displayed
\* never moves back to an earlier one.
C1_OlderResponseDiscarded == [][shown' >= shown]_vars

\* C2: building the view model never throws, for any shape of apiData and
\* any userQuery.
C2_MapperNeverThrows == pc = "done" => vm.t = "viewmodel"

\* C3: once the extractParameters call of the current query has failed,
\* apiData is null and a dashboard built for that query is the view model
\* of the absent-payload path.
C3_FailedQueryUsesDefaults ==
    (queryOf # 0 /\ outcome[queryOf] = "failed") =>
        /\ apiData = Null
        /\ currentScreen = "query-dashboard" => vm = mockViewModel(userQuery)

\* C4: the view model's visualizations hold no entry of type 'line' and no
\* two entries with the same type and title.
C4_NoLineNoDuplicate ==
    (pc = "done" /\ vm.t = "viewmodel" /\ "visualizations" \in DOMAIN vm) =>
        LET out == vm.visualizations.items
        IN  /\ \A i \in 1..Len(out) : out[i].type # Str(txtLine)
            /\ \A i, j \in 1..Len(out) :
                   (i < j) => ~(out[i].type = out[j].type /\ out[i].title = out[j].title)

\* a payload whose list has a line entry, a duplicated pair and a
\* 'Pollutant Comparison' entry is filtered down to one entry
C4_Witness ==
    /\ pc = "done"
    /\ hasAnalysis(apiData)
    /\ Get(Get(apiData, "dashboard_details"), "visualizations") = Array(ExampleVizList)
    /\ vm.t = "viewmodel"
    /\ Len(vm.visualizations.items) = 1

\* the results key of each whitelisted chart label
WhitelistKey ==
    ("PM2.5" :> "pm25") @@ ("O3" :> "o3") @@ ("NO2" :> "no2") @@
    ("CH2O" :> "ch2o") @@ ("CO" :> "co") @@ ("AOD" :> "aod")

payloadResults == Get(Get(Get(apiData, "metadata"), "analysis"), "results")

\* the species of a chart label has an entry in the payload's results
SpeciesInPayload(label) ==
    /\ hasAnalysis(apiData)
    /\ Get(payloadResults, WhitelistKey[label]).t \notin {"undefined", "null"}

\* C5 as claimed: on every path the pollutants keys are whitelisted and a
\* key is present only if its species is present in the payload's results.
C5_OnlyPayloadSpecies ==
    (pc = "done" /\ vm.t = "viewmodel") =>
        /\ DOMAIN vm.pollutants \subseteq DOMAIN WhitelistKey
        /\ \A label \in DOMAIN vm.pollutants : SpeciesInPayload(label)

\* C5 as amended: that holds on the payload path, where the keys are exactly
\* the whitelisted species whose entry in results is truthy, each with the
\* entry's value and status; on the absent-payload path pollutants is the
\* fixed pair PM2.5 (12.5) and O3 (35.8).
C5_PayloadSpeciesOrMockPair ==
    (pc = "done" /\ vm.t = "viewmodel") =>
        IF hasAnalysis(apiData)
        THEN /\ DOMAIN vm.pollutants \subseteq DOMAIN WhitelistKey
             /\ \A label \in DOMAIN WhitelistKey :
                    label \in DOMAIN vm.pollutants
                        <=> Truthy(Get(payloadResults, WhitelistKey[label]))
             /\ \A label \in DOMAIN vm.pollutants :
                    /\ vm.pollutants[label].value
                           = Get(Get(payloadResults, WhitelistKey[label]), "value")
                    /\ vm.pollutants[label].risk
                           = Get(Get(payloadResults, WhitelistKey[label]), "status")
        ELSE /\ DOMAIN vm.pollutants = {"PM2.5", "O3"}
             /\ vm.pollutants["PM2.5"].value = Num(125)
             /\ vm.pollutants["O3"].value = Num(358)

\* a payload with a whitelisted and a non-whitelisted species: only the
\* whitelisted one is charted
C5_Witness ==
    /\ pc = "done"
    /\ hasAnalysis(apiData)
    /\ Truthy(Get(payloadResults, "so2"))
    /\ Truthy(Get(payloadResults, "co"))
    /\ vm.t = "viewmodel"
    /\ DOMAIN vm.pollutants = {"CO"}

\* v ?? w
Nullish(v, w) == IF v.t \in {"undefined", "null"} THEN w ELSE v

\* C6: with the payload present, currentAQI is
\* round(results.aqi.value ?? dashboard_details.aqi ?? 42), where a value of
\* 0 counts as present.
C6_CurrentAQINullish ==
    (pc = "done" /\ hasAnalysis(apiData) /\ vm.t = "viewmodel") =>
        vm.currentAQI =
            Num(Round(Nullish(Get(Get(payloadResults, "aqi"), "value"),
                              Nullish(Get(Get(apiData, "dashboard_details"), "aqi"),
                                      Num(420))).n))

\* the time C7 describes for a match of pattern k with groups m
claimedTime(k, m) ==
    LET h == parseInt(m[1].s).n
        mer == toLowerCase(m[IF k = 1 THEN 3 ELSE 2].s)
        hour == IF k \in {1, 2} /\ mer = <<"p", "m">> /\ h # 12 THEN h + 12
                ELSE IF k \in {1, 2} /\ mer = <<"a", "m">> /\ h = 12 THEN 0
                ELSE h
        minutes == IF k = 2 THEN <<"0", "0">> ELSE m[2].s
    IN  Str(padStart2(IntToString(hour)) \o <<":">> \o minutes)

\* C7: for a string, extractTimeFromQuery returns the time of the first
\* pattern of the chain that matches (the hour converted by the meridiem
\* rule and zero-padded, then ':' and the matched minutes, '00' for the
\* H am|pm form), and no-match when no pattern matches.
C7_FirstPatternTime ==
    (pc = "done" /\ tq.t = "string") =>
        LET k == firstPattern(tq.s)
        IN  tres = IF k = 0 THEN Null ELSE claimedTime(k, match(k, tq.s))

\* s is HH:MM with HH in 00..23 and MM in 00..59
IsClockTime(s) ==
    /\ Len(s) = 5
    /\ s[3] = ":"
    /\ \A i \in {1, 2, 4, 5} : IsDigit(s[i])
    /\ DigitVal(s[1]) * 10 + DigitVal(s[2]) <= 23
    /\ DigitVal(s[4]) * 10 + DigitVal(s[5]) <= 59

\* C8: for every input string extractTimeFromQuery returns no-match or a
\* 24-hour HH:MM string.
C8_ClockTimeOrNoMatch ==
    (pc = "done" /\ tq.t = "string") =>
        (tres = Null \/ (tres.t = "string" /\ IsClockTime(tres.s)))

\* C9: extractTimeFromQuery of a value that is not a string returns
\* no-match and does not throw.
C9_NonStringNoMatch ==
    (pc = "done" /\ tq.t # "string") => tres = Null

\* the hour h of a target time 'HH:MM'
targetHourOf(s) ==
    CHOOSE h \in 0..23 : SubSeq(s, 1, 3) = padStart2(IntToString(h)) \o <<":">>

\* C10: for a target time with hour h in 0..23 the forecast has exactly 7
\* points, whose times are the hours h-3 .. h+3 modulo 24 as 'HH:00'.
C10_SevenHoursAroundTarget ==
    (pc = "done" /\ ftarget.t = "string"
        /\ \E h \in 0..23 : SubSeq(ftarget.s, 1, 3) = padStart2(IntToString(h)) \o <<":">>) =>
        /\ Len(fres) = 7
        /\ \A k \in 1..7 :
               fres[k].time =
                   padStart2(IntToString((targetHourOf(ftarget.s) + k - 4) % 24))
                       \o <<":", "0", "0">>

\* the forecast around 23:00 wraps to 00:00, 01:00, 02:00
C10_Witness ==
    /\ pc = "done"
    /\ ftarget = Str(<<"2", "3", ":", "0", "0">>)
    /\ Len(fres) = 7
    /\ fres[1].time = <<"2", "0", ":", "0", "0">>
    /\ fres[5].time = <<"0", "0", ":", "0", "0">>
    /\ fres[7].time = <<"0", "2", ":", "0", "0">>

\* C11: the offset-0 point of a forecast (the 4th) has aqi equal to the
\* base value exactly, whatever is drawn, and every other point has an
\* integer aqi round(base + d) for some d with -3 <= d <= 3.
C11_AnchorExactOthersWithin3 ==
    (pc = "done" /\ Len(fres) = 7) =>
        /\ fres[4].aqi = fbase
        /\ \A k \in {1, 2, 3, 5, 6, 7} :
               /\ fres[k].aqi % 10 = 0
               /\ \E d \in -30..30 : fres[k].aqi = Round(fbase + d)

\* a forecast around the base value 55.7: the first draw of 2.9 gives
\* round(58.6) = 59 and the anchor stays 55.7
C11_Witness ==
    /\ pc = "done"
    /\ fbase = 557
    /\ rnd[1] = 29
    /\ Len(fres) = 7
    /\ fres[1].aqi = 590
    /\ fres[4].aqi = 557

\* QueryDashboard has rendered at least once
mapperDone == pc \in {"done", "rerendered"}

payloadVisualizations ==
    Get(Get(apiData, "dashboard_details"), "visualizations")

\* the first two rules of C12: not of type 'line', and no title that
\* contains 'pollutant comparison' case-insensitively
survivesRules(viz) ==
    /\ Get(viz, "type") # Str(txtLine)
    /\ ~(/\ Get(viz, "title").t = "string"
          /\ includes(toLowerCase(Get(viz, "title").s), txtPollutantComparison))

\* the positions C12 keeps: survivors that are the first of their
\* (type, title) pair among the survivors
claimedKept(items) ==
    {i \in 1..Len(items) :
        /\ survivesRules(items[i])
        /\ \A j \in 1..(i - 1) :
               survivesRules(items[j]) =>
                   ~(/\ Get(items[j], "type") = Get(items[i], "type")
                     /\ Get(items[j], "title") = Get(items[i], "title"))}

\* the entries of items at the positions in kept, in order
RECURSIVE subsequenceAt(_, _, _)
subsequenceAt(items, i, kept) ==
    IF i > Len(items) THEN << >>
    ELSE (IF i \in kept THEN << items[i] >> ELSE << >>)
             \o subsequenceAt(items, i + 1, kept)

\* C12: the filtered list is the order-preserving subsequence of the input
\* that holds exactly the entries that are not of type 'line', whose title
\* does not contain 'pollutant comparison', and that are the first
\* occurrence of their (type, title) pair among those.
C12_FirstOfEachTypeTitlePair ==
    (mapperDone /\ vm.t = "viewmodel" /\ hasAnalysis(apiData)
        /\ payloadVisualizations.t = "array") =>
        vm.visualizations.items =
            subsequenceAt(payloadVisualizations.items, 1,
                          claimedKept(payloadVisualizations.items))

\* C13: without a payload, location is 'Maryland Park', 'Dublin' or 'Cork'
\* by case-insensitive substring match in that priority, 'Current Location'
\* otherwise and for a query that is not a string; healthRisk is
\* 'Moderate Risk' exactly when the query contains 'asthma', else 'Low Risk'.
C13_GazetteerAndRiskTier ==
    (mapperDone /\ vm.t = "viewmodel" /\ ~hasAnalysis(apiData)) =>
        LET q == IF userQuery.t = "string" THEN toLowerCase(userQuery.s) ELSE << >>
        IN  /\ vm.location =
                   (CASE includes(q, txtMaryland) -> Str(txtMarylandPark)
                      [] ~includes(q, txtMaryland) /\ includes(q, txtDublin) ->
                             Str(txtDublinName)
                      [] ~includes(q, txtMaryland) /\ ~includes(q, txtDublin)
                             /\ includes(q, txtCork) -> Str(txtCorkName)
                      [] OTHER -> Str(txtCurrentLocation))
            /\ vm.healthRisk =
                   (IF includes(q, txtAsthma) THEN Str(txtModerateRisk)
                    ELSE Str(txtLowRisk))

\* 'dublin or Maryland' names both places: Maryland Park wins
C13_Witness ==
    /\ mapperDone
    /\ ~hasAnalysis(apiData)
    /\ userQuery = Str(qMarylandDublin)
    /\ vm.t = "viewmodel"
    /\ vm.location = Str(txtMarylandPark)
    /\ vm.healthRisk = Str(txtLowRisk)

\* two outcomes of the mapper that differ at most in the aqi of the points
\* of timeData other than the anchor (the 4th)
sameButJitter(a, b) ==
    IF a.t # "viewmodel" \/ b.t # "viewmodel" THEN a = b
    ELSE /\ [a EXCEPT !.timeData = << >>] = [b EXCEPT !.timeData = << >>]
         /\ Len(a.timeData) = Len(b.timeData)
         /\ \A k \in 1..Len(a.timeData) :
                /\ a.timeData[k].time = b.timeData[k].time
                /\ (k = 4 => a.timeData[k].aqi = b.timeData[k].aqi)

\* C16: two invocations of the mapper on the same apiData and userQuery
\* give equal view models when the random source gives the same values,
\* and otherwise differ only in the aqi of the non-anchor timeData points.
C16_SameInputsSameViewModel ==
    [][(mapperDone /\ pc' = "rerendered") =>
          /\ (rnd' = rnd => vm' = vm)
          /\ sameButJitter(vm, vm')]_vars

\* a second render of a payload dashboard whose draws moved the first
\* point of timeData away from the anchor
C16_Witness ==
    /\ pc = "rerendered"
    /\ hasAnalysis(apiData)
    /\ vm.t = "viewmodel"
    /\ vm.timeData[1].aqi # vm.timeData[4].aqi

\* C19: the mapper takes the absent-payload path exactly when the payload
\* is absent or lacks metadata.analysis.results, and the payload path only
\* when the nested results are present.
C19_MissingResultsTakesFallback ==
    (mapperDone /\ vm.t = "viewmodel") =>
        (vm = mockViewModel(userQuery)
            <=> payloadResults.t \in {"undefined", "null"})

\* C20: without a payload timeData is hourlyForecast(42, '14:00'): 7 points
\* at 11:00 .. 17:00 whose 4th has time '14:00' and aqi 42, the fallback
\* currentAQI, the others being integers within 3 of 42.
C20_FallbackSeriesAround14 ==
    (mapperDone /\ vm.t = "viewmodel" /\ ~hasAnalysis(apiData)) =>
        /\ Len(vm.timeData) = 7
        /\ \A k \in 1..7 :
               /\ vm.timeData[k].time = IntToString(10 + k) \o <<":", "0", "0">>
               /\ vm.timeData[k].aqi % 10 = 0
               /\ vm.timeData[k].aqi \in (DefaultAQI - 30)..(DefaultAQI + 30)
        /\ vm.timeData[4].aqi = DefaultAQI
        /\ vm.currentAQI = Num(DefaultAQI)

\* the ApiService calls of the current operation, as (op, args) pairs
callsMade ==
    [k \in 1..Len(requests) |-> [op |-> requests[k].op, args |-> requests[k].args]]

\* with the flag set the operation makes no ApiService call and resolves
\* with synthetic data
resolvesSynthetic ==
    /\ requests = << >>
    /\ dsCall.state \in {"pending", "fulfilled"}
    /\ dsCall.state = "fulfilled" =>
           dsCall.value = synthetic(dsCall.name, dsCall.params)

\* the operation makes the one ApiService call of its own name with its
\* own arguments, and settles as that call does, with the same value
delegatesUnchanged ==
    /\ callsMade = << [op |-> dsCall.name, args |-> dsCall.params] >>
    /\ dsCall.state = requests[1].state
    /\ dsCall.value = requests[1].value

\* C14 as claimed: every DataService operation resolves with synthetic data
\* and calls no ApiService operation when the flag is set, and otherwise
\* calls the ApiService operation of the same name with the same arguments
\* and returns its result unchanged.
C14_EveryOperationDelegates ==
    (pc = "data" /\ dsCall.state # "idle") =>
        IF USE_MOCK_DATA THEN resolvesSynthetic ELSE delegatesUnchanged

\* C14 as amended: that holds for submitQuery, getCurrentAirQuality,
\* getAirQualityForecast, getQuerySpecificData and getRegionalData (an
\* omitted argument is passed on as its default, null or 7);
\* getAdvancedData has no ApiService operation of its name: it calls
\* getRegionalData(), getAirQualityForecast(null, 7), getPollutantData()
\* and getHealthImpactData(), resolves with {locations, forecast,
\* pollutants, health} built from the four results once all have
\* resolved, and rejects with the error of the first call that rejects.
C14_DelegatesOrAggregates ==
    (pc = "data" /\ dsCall.state # "idle") =>
        IF USE_MOCK_DATA THEN resolvesSynthetic
        ELSE IF dsCall.name # "getAdvancedData" THEN delegatesUnchanged
        ELSE /\ callsMade =
                    << [op |-> "getRegionalData", args |-> << >>],
                       [op |-> "getAirQualityForecast", args |-> << Null, Num(7) >>],
                       [op |-> "getPollutantData", args |-> << >>],
                       [op |-> "getHealthImpactData", args |-> << >>] >>
             /\ dsCall.state = "pending" =>
                    /\ \A k \in 1..4 : requests[k].state # "rejected"
                    /\ \E k \in 1..4 : requests[k].state = "pending"
             /\ dsCall.state = "fulfilled" =>
                    /\ \A k \in 1..4 : requests[k].state = "fulfilled"
                    /\ dsCall.value =
                           [t |-> "object",
                            locations |-> requests[1].value,
                            forecast |-> requests[2].value,
                            pollutants |-> requests[3].value,
                            health |-> requests[4].value]
             /\ dsCall.state = "rejected" =>
                    \E k \in 1..4 :
                        /\ requests[k].state = "rejected"
                        /\ dsCall.value = requests[k].value

\* getAdvancedData against the real API has resolved with the four
\* results under their names
C14_Witness ==
    /\ pc = "data"
    /\ ~USE_MOCK_DATA
    /\ dsCall.state = "fulfilled"
    /\ dsCall.name = "getAdvancedData"
    /\ Len(requests) = 4
    /\ dsCall.value.health = [t |-> "object", response |-> Str(txtStayIn)]
    /\ dsCall.value.locations = Null

\* an Error that carries a message
isErrorWithMessage(v) ==
    /\ v.t = "error"
    /\ v.message.t = "string"
    /\ v.message.s # << >>

\* C15: an ApiService call whose request failed rejects with an Error that
\* carries a message, and so does the DataService operation that made the
\* call, getAdvancedData with one failed call of four included; an
\* operation resolves with null or undefined only when every request
\* succeeded.
C15_FailureRejectsWithError ==
    (pc = "data") =>
        /\ \A i \in 1..Len(requests) :
               requests[i].http = "failed" =>
                   /\ requests[i].state = "rejected"
                   /\ isErrorWithMessage(requests[i].value)
        /\ (\E i \in 1..Len(requests) : requests[i].http = "failed") =>
               /\ dsCall.state = "rejected"
               /\ isErrorWithMessage(dsCall.value)
        /\ (dsCall.state = "fulfilled" /\ dsCall.value \in {Null, Undefined}) =>
               \A i \in 1..Len(requests) : requests[i].http = "ok"

\* getAdvancedData with one failed call, the pollutant data, and three
\* that succeeded: the operation rejected with that call's Error
C15_Witness ==
    /\ pc = "data"
    /\ dsCall.state = "rejected"
    /\ dsCall.name = "getAdvancedData"
    /\ Len(requests) = 4
    /\ requests[3].http = "failed"
    /\ \A i \in {1, 2, 4} : requests[i].http = "ok"
    /\ dsCall.value = Error(txtGetPollutantDataFailed)
    /\ hook.error = Str(txtGetPollutantDataFailed)

\* C17: with REACT_APP_USE_MOCK_DATA set to 'false' every DataService
\* operation goes to the real API client, whatever NODE_ENV is.
C17_FalseSwitchesToRealApi ==
    (pc = "data" /\ dsCall.state # "idle"
        /\ env.REACT_APP_USE_MOCK_DATA = Str(txtFalse)) =>
        /\ ~useMockData
        /\ Len(requests) > 0

\* C18: a hook reports the error of a failed fetch only after the fetch
\* was attempted again, at most retryAttempts times in all.
C18_RetriedBeforeError ==
    (pc = "data" /\ dsCall.state = "rejected" /\ hook.error # Null) =>
        /\ attempts >= 2
        /\ attempts <= retryAttempts

-----------------------------------------------------------------------------
(* QueryDashboard.js: the time series and the map centre of the payload path *)

\* the view model was built from the payload (line 103 took the branch)
payloadPath == mapperDone /\ vm.t = "viewmodel" /\ hasAnalysis(apiData)

\* the entries of the payload's visualizations, << >> when there are none
payloadVizItems ==
    IF payloadVisualizations.t = "array" THEN payloadVisualizations.items
    ELSE << >>

\* a 'line' entry whose data holds a timestamp and a numeric value
carriesPoint(viz) ==
    /\ Get(viz, "type") = Str(txtLine)
    /\ Get(Get(viz, "data"), "timestamp").t = "timestamp"
    /\ Get(Get(viz, "data"), "value").t = "number"

\* the 'HH:00' labels of the 7 hours around hour h
centredOn(series, h) ==
    /\ Len(series) = 7
    /\ \A k \in 1..7 : series[k].time = timeStrOf(hourAt(h, k - 4))

\* C21: on the payload path, when no 'line' visualization carries a
\* {timestamp, value} point, timeData is the 7-point series centred on the
\* hour found in the query (14 without one) and its offset-0 aqi equals the
\* displayed currentAQI, a rounded integer, also for a non-integer payload aqi.
C21_AnchorIsDisplayedAQI ==
    (payloadPath
        /\ \A i \in 1..Len(payloadVizItems) : ~carriesPoint(payloadVizItems[i])) =>
        /\ centredOn(vm.timeData, baseHourOf(extractTimeFromQuery(userQuery)))
        /\ vm.currentAQI.n % 10 = 0
        /\ vm.timeData[4].aqi = vm.currentAQI.n

\* C22: on the payload path, a 'line' visualization carrying a single
\* {timestamp, value} point, wherever it stands in the list and also when
\* its value is 0, centres timeData on the hour of that timestamp with the
\* value as the offset-0 aqi.
C22_LinePointAnchorsSeries ==
    payloadPath =>
        \A i \in 1..Len(payloadVizItems) :
            (/\ carriesPoint(payloadVizItems[i])
             /\ \A j \in 1..(i - 1) : ~carriesPoint(payloadVizItems[j])) =>
                /\ centredOn(vm.timeData,
                             getHours(payloadVizItems[i].data.timestamp))
                /\ vm.timeData[4].aqi = payloadVizItems[i].data.value.n

\* a 'map' entry whose data holds numeric lat and lon
carriesCoordinates(viz) ==
    /\ Get(viz, "type") = Str(txtMap)
    /\ Get(Get(viz, "data"), "lat").t = "number"
    /\ Get(Get(viz, "data"), "lon").t = "number"

\* C23: on the payload path mapCenter is the (lat, lon) of the first 'map'
\* visualization that carries lat and lon, coordinates equal to 0 included,
\* and the fallback centre [39.8283, -98.5795] when there is none.
C23_FirstMapCoordinates ==
    payloadPath =>
        LET maps == {i \in 1..Len(payloadVizItems) :
                        carriesCoordinates(payloadVizItems[i])}
            k == firstOf(maps)
        IN  IF k # 0
            THEN vm.mapCenter = << payloadVizItems[k].data.lat,
                                   payloadVizItems[k].data.lon >>
            ELSE vm.mapCenter = << Num(398283), Num(-985795) >>

-----------------------------------------------------------------------------
(* App.js: what the screens are given *)

\* C24: whenever the query dashboard is displayed, apiData is the response
\* to the submission that set the current userQuery, or null after that
\* submission failed: it never shows the text of one query with the payload
\* of another.
C24_DashboardPayloadOfCurrentQuery ==
    (pc = "app" /\ currentScreen = "query-dashboard") =>
        /\ queryOf # 0
        /\ shown = queryOf
        /\ outcome[queryOf] = "failed" => apiData = Null

\* C25: isLoading is true whenever at least one extractParameters call is
\* outstanding, also when submissions overlap and the first call settles
\* before the second.
C25_LoadingWhileOutstanding ==
    (pc = "app" /\ pending # {}) => isLoading = TRUE

\* submission i was made and its call is outstanding
outstanding(i) == pc = "app" /\ i <= Len(outcome) /\ outcome[i] = "pending"

\* the state the settling of submission i leaves
settledShown(i) ==
    /\ shown = i
    /\ outcome[i] # "pending"
    /\ currentScreen = "response"
    /\ aiResponse.t = "string" /\ Len(aiResponse.s) > 0
    /\ pending = {} => isLoading = FALSE

\* C26: every valid submission eventually settles, and the step that settles
\* it leaves currentScreen = 'response', a non-empty aiResponse and, when no
\* other call is outstanding, isLoading = false; only a valid query
\* (non-empty after trimming) starts a call, an invalid submission changing
\* no state at all.
C26_SubmissionEndsOnResponse ==
    /\ \A i \in 1..MaxSeq : []<>(~outstanding(i))
    /\ [][\A i \in 1..MaxSeq :
            (outstanding(i) /\ ~outstanding(i)') => settledShown(i)']_vars
    /\ [][seq' # seq =>
            /\ seq' = seq + 1
            /\ Len(userQuery'.s) > 0
            /\ userQuery'.s = trim(userQuery'.s)
            /\ isLoading' = TRUE
            /\ Cardinality(pending') = Cardinality(pending) + 1]_vars

\* the second of two submissions failed after the first was answered
C26_Witness ==
    /\ pc = "app"
    /\ seq = 2 /\ shown = 2
    /\ outcome = << "ok", "failed" >>
    /\ currentScreen = "response"
    /\ aiResponse = Str(txtErrorProcessing)
    /\ pending = {} /\ isLoading = FALSE

-----------------------------------------------------------------------------
(* ResponseScreen.js (lines 1-176) as App.js renders it *)

\* App.js lines 100-108: the props ResponseScreen is rendered with; the
\* handlers are the actions handleViewDashboard and handleNewQuery
responseScreenProps ==
    [t |-> "object", userQuery |-> userQuery, aiResponse |-> aiResponse]

\* ResponseScreen.js lines 9 and 15; the View Dashboard button of lines
\* 145-153 is disabled when this is false
isDashboardEnabled == Get(responseScreenProps, "statusCode") = Num(200)

\* the response screen shows the outcome of the submission that settled last
answered(result) ==
    /\ pc = "app" /\ currentScreen = "response"
    /\ shown # 0 /\ outcome[shown] = result

\* C27: on the response screen of a query answered with status 200 the View
\* Dashboard action is enabled, so that the query dashboard can be reached;
\* on the response screen of a failed query it is disabled.
C27_DashboardEnabledOn200 ==
    /\ (answered("ok") /\ Get(apiData, "statusCode") = Num(200)) =>
           isDashboardEnabled
    /\ answered("failed") => ~isDashboardEnabled

-----------------------------------------------------------------------------
(* App.js: navigation *)

\* the depth of a screen below the landing page
levelOf ==
    ("landing" :> 0) @@ ("response" :> 1) @@ ("query-dashboard" :> 2) @@
    ("advanced-dashboard" :> 3)

oneLevelUp(screen) ==
    CHOOSE s \in DOMAIN levelOf :
        levelOf[s] = IF levelOf[screen] = 0 THEN 0 ELSE levelOf[screen] - 1

\* a step of handleBack: the screen changes from a dashboard while no call
\* settles and the advanced dashboard is not opened
backStep ==
    /\ currentScreen \in {"query-dashboard", "advanced-dashboard"}
    /\ currentScreen' # currentScreen
    /\ currentScreen' # "advanced-dashboard"
    /\ pending' = pending

\* C29: currentScreen is always one of landing, response, query-dashboard
\* and advanced-dashboard; handleBack moves exactly one level toward landing
\* (landing stays landing) and changes no other state, so that at most 3
\* consecutive Backs reach landing from any screen.
C29_BackMovesOneLevel ==
    /\ [](pc = "app" =>
            /\ currentScreen \in DOMAIN levelOf
            /\ backTarget(currentScreen) = oneLevelUp(currentScreen)
            /\ backTarget(backTarget(backTarget(currentScreen))) = "landing")
    /\ [][backStep =>
            /\ currentScreen' = oneLevelUp(currentScreen)
            /\ UNCHANGED << userQuery, aiResponse, apiData, isLoading >>]_vars

\* back on the response screen of the only query made, after its dashboard
\* was built: only handleBack leads there
C29_Witness ==
    /\ pc = "app"
    /\ currentScreen = "response"
    /\ seq = 1 /\ shown = 1 /\ pending = {}
    /\ vm # Undefined

-----------------------------------------------------------------------------
(* useApi.js: overlapping fetches *)

allSettled == \A k \in 1..Len(fetches) : fetches[k].state # "pending"

\* the fetchData call started last
latest == fetches[Len(fetches)]

\* C28: when a fetch is started while an earlier one is outstanding, then
\* after both have settled data holds the result of the fetch started last
\* and error reflects the outcome of that fetch; loading is false only when
\* no fetch is outstanding.
C28_LatestFetchWins ==
    (pc = "hook" /\ Len(fetches) > 0) =>
        /\ hook.loading = FALSE => allSettled
        /\ allSettled =>
              IF latest.state = "fulfilled"
              THEN hook.data = latest.value /\ hook.error = Null
              ELSE hook.error = Or(messageOf(latest.value),
                                   Str(txtAnErrorOccurred))

-----------------------------------------------------------------------------
(* AdvancedDashboard *)

advancedMounted == pc = "mounted"

\* C30: AdvancedDashboard rendered with apiData absent, which is how App
\* renders it, does not throw and falls back to the centre [53.0, -7.5] and
\* the location 'Unknown'; with apiData present it takes the AQI, the
\* location and the map centre from the payload.
C30_AdvancedDashboardDefaults ==
    advancedMounted =>
        /\ vm.t = "advanced"
        /\ apiData.t \in {"undefined", "null"} =>
              /\ vm.mapCenter = << Num(530000), Num(-75000) >>
              /\ vm.currentLocation = Str(txtUnknown)
        /\ apiData.t = "object" =>
              LET details == Get(apiData, "dashboard_details")
                  items == payloadVizItems
                  k == firstOf({i \in 1..Len(items) : isMapWithCoords(items[i])})
              IN  /\ Get(details, "aqi").t = "number" /\ Get(details, "aqi").n # 0
                        => vm.currentAQI = Num(Round(details.aqi.n))
                  /\ Get(details, "location").t = "string"
                        /\ Get(details, "location").s # << >>
                        => vm.currentLocation = details.location
                  /\ k # 0 => vm.mapCenter = << items[k].data.lat,
                                                items[k].data.lon >>

=============================================================================
